---- MODULE Spec2Model ----
(***************************************************************************)
(* Model of the gait coordinator of stompy (stompy/restriction/body.py):   *)
(* class Body and the part of the Foot contract it drives.                 *)
(*                                                                         *)
(* Restrictions are integers in tenths (0.6 is 6, r_max = 0.9 is 9).       *)
(* A foot state of None (set by Body.disable) is the string "None".        *)
(***************************************************************************)
EXTENDS Integers, Sequences, FiniteSets, TLC

\* ---- bounds of the model ------------------------------------------------
MaxLegs == 3      \* most legs handed to Body(legs)
MaxTime == 2      \* last value of the clock that stamps last_lift_time
MaxHaltTime == 1  \* the same, in the specification of halting
MaxRankTime == 3  \* the same, in the specification of ranking
MaxCtl == 2       \* most leg controllers constructed one by one
MaxClock == 2     \* last value of time.time() of the serial legs, in half seconds
MaxBeatClock == 3  \* the same, for a leg updated on time
MaxPoints == 2     \* most points of a trajectory
MaxAdds == 1       \* last value of the id counter at which a trajectory is appended
MaxTrajTime == 2   \* last value of the clock of the action server
MaxSimTime == 20  \* last value of time.time() of a simulated leg, in 12.5 ms
MaxPorts == 2     \* most serial ports handed to connect_to_teensies

\* ---- configuration (cfg.RestrictionConfig, Body.__init__) -----------------
max_feet_up == 1
r_thresh == 5
r_max == 9

\* restriction values a foot may report: not above r_thresh, between the
\* thresholds, exactly r_max, above r_max
RVals == {0, 6, 9, 10}

None == "None"      \* the foot state None

\* values a target attribute or argument can hold, tagged with their type
NoneTarget == [type |-> "NoneType"]
Unset == [type |-> "unset"]   \* _pre_halt_target before its first assignment
NotATarget == [type |-> "tuple"]

\* BodyTarget(rotation_center, speed, dz)
BodyTarget(rc, speed, dz) ==
    [type |-> "BodyTarget", rotation_center |-> rc, speed |-> speed, dz |-> dz]
ZeroTarget == BodyTarget(<<0, 0>>, 0, 0)
T1 == BodyTarget(<<1, 0>>, 1, 0)
T2 == BodyTarget(<<0, 1>>, 2, 1)
CallerTargets == {T1, T2}
\* isinstance(target, BodyTarget)
IsBodyTarget(t) == t.type = "BodyTarget"

SpeedScalars == {1, 2}

VARIABLES
    enabled,          \* Body.enabled
    halted,           \* Body.halted
    target,           \* Body.target
    pre_halt_target,  \* Body._pre_halt_target
    speed_scalar,     \* Body.cfg.speed_scalar
    feet,             \* Body.feet: leg -> Foot
    neighbors,        \* Body.neighbors: leg -> its two ring neighbours
    now,              \* the clock read when a foot lifts
    last,             \* the method of Body that ran last, its branch, its outputs
    intended,         \* the BodyTarget the caller wants in effect
    inflight,         \* thread -> the on_restriction call it is inside of
    legs,             \* the leg controllers constructed in this process
    PLAN_TICK,        \* consts.PLAN_TICK
    clock,            \* time.time()
    call,             \* the leg-controller call that ran last and its outputs
    buffer,           \* the TrajectoryBuffer of the action server
    appended          \* the append_trajectory call that ran last and its result

vars == <<enabled, halted, target, pre_halt_target, speed_scalar, feet,
          neighbors, now, last, intended, inflight, legs, PLAN_TICK, clock,
          call, buffer, appended>>

\* the state of the Body and of the leg controllers; each goes with the
\* state of the action server, which neither of them touches
ServerState == <<buffer, appended>>
BodyState == <<enabled, halted, target, pre_halt_target, speed_scalar, feet,
               neighbors, now, last, intended, inflight, ServerState>>
LegState == <<legs, PLAN_TICK, clock, call, ServerState>>

\* ---- Body.__init__: the ring of neighbours -------------------------------
\* sorted(self.legs): the leg ids in ascending order
SortedSeq(S) ==
    CHOOSE q \in [1..Cardinality(S) -> S] :
        \A j, k \in 1..Cardinality(S) : j < k => q[j] < q[k]

\* the neighbours without the wrap-around at the last leg
ring_NoWrap(inds) ==
    [n \in {inds[k] : k \in 1..Len(inds)} |->
        IF Len(inds) > 1
        THEN LET i == CHOOSE k \in 1..Len(inds) : inds[k] = n
             IN IF i = 1 THEN <<inds[Len(inds)], inds[i + 1]>>
                ELSE IF i = Len(inds) THEN <<inds[i - 1], inds[i - 1]>>
                ELSE <<inds[i - 1], inds[i + 1]>>
        ELSE <<>>]

\* inds = sorted(legs) as a sequence; inds[i] of the code is inds[i + 1] here.
ring(inds) ==
    [n \in {inds[k] : k \in 1..Len(inds)} |->
        IF Len(inds) > 1
        THEN LET i == CHOOSE k \in 1..Len(inds) : inds[k] = n
             IN IF i = 1 THEN <<inds[Len(inds)], inds[i + 1]>>
                ELSE IF i = Len(inds) THEN <<inds[i - 1], inds[1]>>
                ELSE <<inds[i - 1], inds[i + 1]>>
        ELSE <<>>]

\* ---- Foot ----------------------------------------------------------------
\* Foot.set_state(state): stores the state; a lift stamps last_lift_time.
Foot_set_state(foot, s, t) ==
    [foot EXCEPT !.state = s,
                 !.last_lift_time = IF s = "lift" THEN t ELSE @]

\* Foot.set_target(target, update_swing)
Foot_set_target(foot, t, us) ==
    [foot EXCEPT !.target = t, !.update_swing = us]

\* Foot(leg, cfg)
NewFoot ==
    [state |-> None, restriction |-> 0, last_lift_time |-> 0,
     target |-> NoneTarget, update_swing |-> FALSE]

\* the states a caller of enable(foot_states) asks for
FootStateArgs == {"stance", "swing"}

\* the foot's own progress through its cycle
FootNextState(s) ==
    CASE s = None -> "stance"
      [] s = "lift" -> "swing"
      [] s = "swing" -> "lower"
      [] s = "lower" -> "wait"
      [] s = "wait" -> "stance"
      [] OTHER -> s

\* Grounded with 'lower' taken for a state on the ground
Grounded_LowerDown(s) == s \in {"stance", "wait", "lower"}

\* s in ('stance', 'wait')
Grounded(s) == s \in {"stance", "wait"}

\* ---- Body ----------------------------------------------------------------
\* The Body object as a record, so that one handler can call another.
\* raised: the call ended by raising; log: logger.debug entries of the call;
\* sent: the (target, update_swing) pairs delivered to every foot in the call;
\* res: the branch on_restriction took; time: the clock.
Self ==
    [enabled |-> enabled, halted |-> halted, target |-> target,
     pre_halt_target |-> pre_halt_target, speed_scalar |-> speed_scalar,
     feet |-> feet, neighbors |-> neighbors, time |-> now,
     raised |-> FALSE, log |-> <<>>, sent |-> <<>>, res |-> "ok"]

\* set_target that keeps the caller's update_swing while halted
set_target_KeepSwing(b, t, us) ==
    IF ~IsBodyTarget(t)
    THEN [b EXCEPT !.raised = TRUE]
    ELSE LET eff == IF b.halted THEN ZeroTarget ELSE t
         IN [b EXCEPT
               !.pre_halt_target = IF b.halted THEN t ELSE @,
               !.target = eff,
               !.feet = [i \in DOMAIN b.feet |->
                             Foot_set_target(b.feet[i], eff, us)],
               !.log = IF b.halted
                       THEN @ \o <<"set_target", "set_target while halted">>
                       ELSE Append(@, "set_target"),
               !.sent = Append(@, <<eff, us>>)]

\* set_target that stores the target before it checks its type
set_target_LateCheck(b, t, us) ==
    IF ~IsBodyTarget(t)
    THEN [b EXCEPT !.target = t, !.raised = TRUE]
    ELSE LET eff == IF b.halted THEN ZeroTarget ELSE t
             eus == IF b.halted THEN FALSE ELSE us
         IN [b EXCEPT
               !.pre_halt_target = IF b.halted THEN t ELSE @,
               !.target = eff,
               !.feet = [i \in DOMAIN b.feet |->
                             Foot_set_target(b.feet[i], eff, eus)],
               !.log = IF b.halted
                       THEN @ \o <<"set_target", "set_target while halted">>
                       ELSE Append(@, "set_target"),
               !.sent = Append(@, <<eff, eus>>)]

\* Body.set_target(target, update_swing)
set_target(b, t, us) ==
    IF ~IsBodyTarget(t)
    THEN [b EXCEPT !.raised = TRUE]
    ELSE LET eff == IF b.halted THEN ZeroTarget ELSE t
             eus == IF b.halted THEN FALSE ELSE us
         IN [b EXCEPT
               !.pre_halt_target = IF b.halted THEN t ELSE @,
               !.target = eff,
               !.feet = [i \in DOMAIN b.feet |->
                             Foot_set_target(b.feet[i], eff, eus)],
               !.log = IF b.halted
                       THEN @ \o <<"set_target", "set_target while halted">>
                       ELSE Append(@, "set_target"),
               !.sent = Append(@, <<eff, eus>>)]

\* set_speed that checks the target before it stores the speed
set_speed_CheckFirst(b, s) ==
    IF ~IsBodyTarget(b.target) THEN [b EXCEPT !.raised = TRUE]
    ELSE set_target([b EXCEPT !.speed_scalar = s], b.target, TRUE)

\* Body.set_speed(speed_scalar)
set_speed(b, s) ==
    set_target([b EXCEPT !.speed_scalar = s], b.target, TRUE)

\* enable that puts every foot in the state it is given
enable_SetStates(b, foot_states) ==
    [b EXCEPT !.enabled = TRUE, !.halted = FALSE, !.log = Append(@, "enable"),
              !.feet = [i \in DOMAIN b.feet |->
                            Foot_set_state(b.feet[i], foot_states, b.time)]]

\* Body.enable(foot_states)
enable(b, foot_states) ==
    [b EXCEPT !.enabled = TRUE, !.halted = FALSE, !.log = Append(@, "enable")]

\* disable that leaves the feet in their states
disable_KeepStates(b) ==
    [b EXCEPT !.enabled = FALSE, !.log = Append(@, "disable")]

\* Body.disable()
disable(b) ==
    [b EXCEPT !.enabled = FALSE,
              !.feet = [i \in DOMAIN b.feet |->
                            Foot_set_state(b.feet[i], None, b.time)],
              !.log = Append(@, "disable")]

\* halt that saves the pre-halt target after it has set the zero target
halt_SaveAfter(b) ==
    IF ~b.halted
    THEN LET b1 == set_target([b EXCEPT !.log = Append(@, "halt")],
                              ZeroTarget, FALSE)
         IN [b1 EXCEPT !.pre_halt_target = b1.target, !.halted = TRUE]
    ELSE b

\* halt without the test of halted
halt_Unguarded(b) ==
    LET b1 == [b EXCEPT !.log = Append(@, "halt"),
                        !.pre_halt_target = b.target]
        b2 == set_target(b1, ZeroTarget, FALSE)
    IN [b2 EXCEPT !.halted = TRUE]

\* Body.halt()
halt(b) ==
    IF ~b.halted
    THEN LET b1 == [b EXCEPT !.log = Append(@, "halt"),
                             !.pre_halt_target = b.target]
             b2 == set_target(b1, ZeroTarget, FALSE)
         IN IF b2.raised THEN b2 ELSE [b2 EXCEPT !.halted = TRUE]
    ELSE b

\* the unhalt scan of on_restriction: some foot outside swing/lower is above r_max
maxed(b) ==
    \E i \in DOMAIN b.feet :
        /\ b.feet[i].state \notin {"swing", "lower"}
        /\ b.feet[i].restriction > r_max

\* n_up of on_restriction: feet whose state is neither stance nor wait
n_up(b) == Cardinality({i \in DOMAIN b.feet : ~Grounded(b.feet[i].state)})

\* ns_up of on_restriction: neighbours whose state is neither stance nor wait
ns_up(b, leg) ==
    Cardinality({k \in 1..Len(b.neighbors[leg]) :
                    ~Grounded(b.feet[b.neighbors[leg][k]].state)})

\* the keys of last_lift_times: the reporting leg and every other restricted
\* foot that is in stance or wait
restricted(b, leg) ==
    {ln \in DOMAIN b.feet : \/ ln = leg
                   \/ /\ Grounded(b.feet[ln].state)
                      /\ b.feet[ln].restriction > r_thresh}

\* position of leg when the most recently lifted leg comes first
position_NewestFirst(b, leg) ==
    Cardinality({ln \in restricted(b, leg) :
        \/ b.feet[ln].last_lift_time > b.feet[leg].last_lift_time
        \/ /\ b.feet[ln].last_lift_time = b.feet[leg].last_lift_time
           /\ ln < leg})

\* position of leg in ln_by_lt = sorted(last_lift_times, key=...): the sort
\* is stable, ties keep the order of the feet
position(b, leg) ==
    Cardinality({ln \in restricted(b, leg) :
        \/ b.feet[ln].last_lift_time < b.feet[leg].last_lift_time
        \/ /\ b.feet[ln].last_lift_time = b.feet[leg].last_lift_time
           /\ ln < leg})

\* the allowance cut at n_can_lift legs: ln_by_lt[:n_can_lift]
in_allowance_TopBudget(b, leg, n_can_lift) == position(b, leg) < n_can_lift

\* leg_number in ln_by_lt[:n_can_lift+1]
in_allowance(b, leg, n_can_lift) == position(b, leg) < n_can_lift + 1

\* the lift decision of on_restriction (lines 178-229)
may_lift(b, leg) ==
    /\ Len(b.neighbors[leg]) # 0
    /\ ns_up(b, leg) = 0
    /\ n_up(b) < max_feet_up
    /\ LET n_can_lift == max_feet_up - n_up(b)
       IN IF Cardinality(restricted(b, leg)) > n_can_lift
          THEN in_allowance(b, leg, n_can_lift)
          ELSE TRUE

\* on_restriction that also lifts a foot that waits
arbitrate_LiftWaiting(b, r, leg) ==
    IF b.halted /\ r < r_max /\ ~maxed(b)
    THEN LET b1 == [b EXCEPT !.log = Append(@, "unhalt"), !.halted = FALSE,
                             !.res = "unhalt"]
         IN set_target(b1, b1.pre_halt_target, FALSE)
    ELSE IF r > r_max /\ ~b.halted
    THEN [halt(b) EXCEPT !.res = "halt"]
    ELSE IF r > r_thresh /\ b.feet[leg].state \in {"stance", "wait"}
            /\ may_lift(b, leg)
    THEN [b EXCEPT !.feet[leg] = Foot_set_state(@, "lift", b.time),
                   !.time = @ + 1, !.res = "lift"]
    ELSE [b EXCEPT !.res = "none"]

\* on_restriction that lifts no foot while the Body is halted
arbitrate_HaltedNoLift(b, r, leg) ==
    IF b.halted /\ r < r_max /\ ~maxed(b)
    THEN LET b1 == [b EXCEPT !.log = Append(@, "unhalt"), !.halted = FALSE,
                             !.res = "unhalt"]
         IN set_target(b1, b1.pre_halt_target, FALSE)
    ELSE IF r > r_max /\ ~b.halted
    THEN [halt(b) EXCEPT !.res = "halt"]
    ELSE IF r > r_thresh /\ b.feet[leg].state = "stance" /\ ~b.halted
            /\ may_lift(b, leg)
    THEN [b EXCEPT !.feet[leg] = Foot_set_state(@, "lift", b.time),
                   !.time = @ + 1, !.res = "lift"]
    ELSE [b EXCEPT !.res = "none"]

\* on_restriction that clears halted only once the pre-halt target is applied
arbitrate_UnhaltAfter(b, r, leg) ==
    IF b.halted /\ r < r_max /\ ~maxed(b)
    THEN LET b1 == [b EXCEPT !.log = Append(@, "unhalt"), !.res = "unhalt"]
             b2 == set_target([b1 EXCEPT !.halted = FALSE],
                              b1.pre_halt_target, FALSE)
         IN IF b2.raised THEN [b1 EXCEPT !.raised = TRUE] ELSE b2
    ELSE IF r > r_max /\ ~b.halted
    THEN [halt(b) EXCEPT !.res = "halt"]
    ELSE IF r > r_thresh /\ b.feet[leg].state = "stance" /\ may_lift(b, leg)
    THEN [b EXCEPT !.feet[leg] = Foot_set_state(@, "lift", b.time),
                   !.time = @ + 1, !.res = "lift"]
    ELSE [b EXCEPT !.res = "none"]

\* Body.on_restriction past the enabled gate (lines 142-229)
arbitrate(b, r, leg) ==
    IF b.halted /\ r < r_max /\ ~maxed(b)
    THEN LET b1 == [b EXCEPT !.log = Append(@, "unhalt"), !.halted = FALSE,
                             !.res = "unhalt"]
         IN set_target(b1, b1.pre_halt_target, FALSE)
    ELSE IF r > r_max /\ ~b.halted
    THEN [halt(b) EXCEPT !.res = "halt"]
    ELSE IF r > r_thresh /\ b.feet[leg].state = "stance" /\ may_lift(b, leg)
    THEN [b EXCEPT !.feet[leg] = Foot_set_state(@, "lift", b.time),
                   !.time = @ + 1, !.res = "lift"]
    ELSE [b EXCEPT !.res = "none"]

\* on_restriction without the test of enabled
on_restriction_NoGate(b, r, leg) == arbitrate(b, r, leg)

\* Body.on_restriction(restriction, leg_number), r = restriction['r']
on_restriction(b, r, leg) ==
    IF ~b.enabled THEN [b EXCEPT !.res = "ignored"] ELSE arbitrate(b, r, leg)

\* ---- leg controllers (stompy/leg/teensy.py) --------------------------------
\* estop severities (leg/consts.py)
ESTOP_OFF == 0
ESTOP_SOFT == 1
ESTOP_HARD == 2
ESTOP_HOLD == 3
ESTOP_DEFAULT == 2

\* values of the attribute estop, tagged with their Python type
EstopNone == [t |-> "NoneType", v |-> 0]
PyTrue == [t |-> "bool", v |-> 1]
Sev(n) == [t |-> "int", v |-> n]
EstopLevels == {Sev(ESTOP_OFF), Sev(ESTOP_SOFT), Sev(ESTOP_HARD), Sev(ESTOP_HOLD)}

\* a != b of Python: None differs from every number, True equals 1
PyNe(a, b) ==
    IF a.t = "NoneType" \/ b.t = "NoneType" THEN a.t # b.t ELSE a.v # b.v

\* times are in units of 12.5 ms: HEARTBEAT_TIMEOUT = 1.0 is 80
HEARTBEAT_TIMEOUT == 80
HEARTBEAT_PERIOD == HEARTBEAT_TIMEOUT \div 2
HalfSecond == 40

\* tick times are in tenths of a nanosecond: 0.025 s is 250000000
Ms == 10000000
EPS == 10             \* 1E-9
FAKE_TICK == 250000000  \* 0.025
NoTick == -1          \* consts.PLAN_TICK is None
Abs(x) == IF x < 0 THEN -x ELSE x

\* numpy.round(seed_time * 1000.) / 1000.: to the nearest millisecond, a half
\* to the even one
RoundMs(x) ==
    LET q == x \div Ms
        rem == x % Ms
    IN IF 2 * rem < Ms THEN q * Ms
       ELSE IF 2 * rem > Ms THEN (q + 1) * Ms
       ELSE IF q % 2 = 0 THEN q * Ms ELSE (q + 1) * Ms

\* messages: a command sent to the microcontroller, an event triggered
Cmd(name, value) == [cmd |-> name, value |-> value]
Event(name, value) == [name |-> name, value |-> value]
Heartbeat == Cmd("heartbeat", EstopNone)

\* A controller inside a call: its attributes and the outputs of the call.
\* tx: commands sent (mgr.trigger); events: events triggered; log: log
\* entries; raised: the exception that ended the call, "no" for none.
\* trace: the names of the events triggered and of the commands sent, in the
\* order of the call
OutFields == {"tx", "events", "log", "raised", "trace"}
Obj(c) ==
    c @@ [tx |-> <<>>, events |-> <<>>, log |-> <<>>, raised |-> "no",
          trace |-> <<>>]
Triggered(name) == [io |-> "event", name |-> name]
Sent(name) == [io |-> "tx", name |-> name]
\* the attributes that outlive the call
Attrs(o) == [f \in DOMAIN o \ OutFields |-> o[f]]

\* a telemetry snapshot: the values and the time they were stamped with;
\* NoData is the empty dict {}
Snap(vals, t) == [vals |-> vals, time |-> t]
NoData == Snap(<<>>, -1)

\* LegController.__init__(leg_number)
LegController_init(kind, ln) ==
    [kind |-> kind, leg_number |-> ln, estop |-> EstopNone,
     adc |-> NoData, angles |-> NoData, xyz |-> NoData, pid |-> NoData,
     pwm |-> NoData, last_heartbeat |-> 0,
     tx |-> <<>>, events |-> <<>>, log |-> <<>>, raised |-> "no",
     trace |-> <<>>]

\* set_estop that triggers the event whether or not the value changed
LegController_set_estop_Always(o, value) ==
    [o EXCEPT !.estop = value,
              !.log = Append(@, Event("estop", value)),
              !.events = Append(@, Event("estop", value)),
              !.trace = Append(@, Triggered("estop"))]

\* LegController.set_estop(value)
LegController_set_estop(o, value) ==
    IF PyNe(value, o.estop)
    THEN [o EXCEPT !.estop = value,
                   !.log = Append(@, Event("estop", value)),
                   !.events = Append(@, Event("estop", value)),
                   !.trace = Append(@, Triggered("estop"))]
    ELSE o

\* Teensy.set_estop that sends the command only when the value changes
Teensy_set_estop_OnChange(o, value) ==
    LegController_set_estop(
        IF PyNe(value, o.estop)
        THEN [o EXCEPT !.tx = Append(@, Cmd("estop", value)),
                       !.trace = Append(@, Sent("estop"))]
        ELSE o, value)

\* Teensy.set_estop(value)
Teensy_set_estop(o, value) ==
    LegController_set_estop(
        [o EXCEPT !.tx = Append(@, Cmd("estop", value)),
                  !.trace = Append(@, Sent("estop"))], value)

\* Teensy.on_estop(severity)
Teensy_on_estop(o, severity) == LegController_set_estop(o, severity)

\* set_estop of the controller's class
set_estop(o, value) ==
    IF o.kind = "Teensy" THEN Teensy_set_estop(o, value)
    ELSE LegController_set_estop(o, value)

\* Teensy.send_heartbeat() at time t
send_heartbeat(o, t) ==
    [o EXCEPT !.tx = Append(@, Heartbeat), !.last_heartbeat = t,
              !.trace = Append(@, Sent("heartbeat"))]

\* a telemetry frame of the microcontroller: report_adc, report_xyz, ...
Report(kind, vals) == [report |-> kind, vals |-> vals]
IsReport(frame) == "report" \in DOMAIN frame

\* on_report that keeps a snapshot it already has
Teensy_on_report_KeepFirst(o, kind, vals, t) ==
    LET snap == IF o[kind] = NoData THEN Snap(vals, t) ELSE o[kind]
    IN [o EXCEPT ![kind] = snap,
                 !.log = Append(@, Event(kind, snap)),
                 !.events = Append(@, Event(kind, snap)),
                 !.trace = Append(@, Triggered(kind))]

\* Teensy.on_report_adc, on_report_xyz, on_report_angles, on_report_pid,
\* on_report_pwm at time t: kind is the name of the snapshot
Teensy_on_report(o, kind, vals, t) ==
    LET snap == Snap(vals, t)
    IN [o EXCEPT ![kind] = snap,
                 !.log = Append(@, Event(kind, snap)),
                 !.events = Append(@, Event(kind, snap)),
                 !.trace = Append(@, Triggered(kind))]

\* com.handle_stream() at time t: the frames rx are handed to their handlers
\* in the order received, estop reports to on_estop
RECURSIVE handle_stream(_, _, _)
handle_stream(o, rx, t) ==
    IF rx = <<>> THEN o
    ELSE LET f == Head(rx)
         IN handle_stream(
                IF IsReport(f) THEN Teensy_on_report(o, f.report, f.vals, t)
                ELSE Teensy_on_estop(o, f), Tail(rx), t)

\* Teensy.update that sends the heartbeat once HEARTBEAT_TIMEOUT has passed
Teensy_update_AtTimeout(o, rx, err, t) ==
    LET o1 == handle_stream(o, rx, t)
    IN IF err
       THEN [o1 EXCEPT !.log = Append(@, Event("error", EstopNone)),
                       !.raised = "Exception"]
       ELSE IF t - o1.last_heartbeat > HEARTBEAT_TIMEOUT
       THEN send_heartbeat(o1, t) ELSE o1

\* Teensy.update that logs a stream error and goes on
Teensy_update_Swallow(o, rx, err, t) ==
    LET o1 == handle_stream(o, rx, t)
        o2 == IF err THEN [o1 EXCEPT !.log = Append(@, Event("error", EstopNone))]
              ELSE o1
    IN IF t - o2.last_heartbeat > HEARTBEAT_PERIOD
       THEN send_heartbeat(o2, t) ELSE o2

\* Teensy.update() at time t: the stream holds the reports rx and, if err,
\* a frame on which handle_stream raises
Teensy_update(o, rx, err, t) ==
    LET o1 == handle_stream(o, rx, t)
    IN IF err
       THEN [o1 EXCEPT !.log = Append(@, Event("error", EstopNone)),
                       !.raised = "Exception"]
       ELSE IF t - o1.last_heartbeat > HEARTBEAT_PERIOD
       THEN send_heartbeat(o1, t) ELSE o1

\* consts.PLAN_TICK after Teensy.__init__ that adopts every reported time
Teensy_tick_Adopt(seed, pt) == RoundMs(seed)

\* consts.PLAN_TICK after Teensy.__init__ got seed_time (lines 363-365)
Teensy_tick(seed, pt) == IF pt = NoTick THEN RoundMs(seed) ELSE pt

\* Teensy.__init__(port) at time t: the microcontroller reports leg number ln
\* and seed time seed; pt is consts.PLAN_TICK before the call
\* a handler registered with mgr.on(name, ...)
Registered(name) == [io |-> "on", name |-> name]
\* calibration.setup.get(leg_number, []): the names of the stored calibration
\* writes of the leg; leg 1 has two, the other legs none
calibration_setup(ln) ==
    IF ln = 1 THEN <<"set_calf_scale", "set_pid_gains">> ELSE <<>>
\* the handlers registered after the first heartbeat (lines 374-379)
ReportHandlers ==
    <<Registered("report_xyz"), Registered("report_angles"),
      Registered("report_pid"), Registered("report_pwm"),
      Registered("report_adc"), Registered("report_loop_time")>>
\* lines 336-353: the leg number query, the calibration writes of the leg
\* and the estop handler
Teensy_setup(ln) ==
    [LegController_init("Teensy", ln) EXCEPT
        !.trace = <<Sent("leg_number")>>
                    \o [k \in 1..Len(calibration_setup(ln)) |->
                           Sent(calibration_setup(ln)[k])]
                    \o <<Registered("estop")>>]
\* lines 357-360: the leg is disabled and asked for its tick time
Teensy_disabled(ln) ==
    [Teensy_set_estop(Teensy_setup(ln), Sev(ESTOP_DEFAULT)) EXCEPT
        !.trace = Append(@, Sent("pid_seed_time"))]

\* Teensy.__init__ that sends the first heartbeat before the tick check
Teensy_init_BeatFirst(ln, seed, pt, t) ==
    IF Abs(seed - Teensy_tick(seed, pt)) > EPS
    THEN [send_heartbeat(Teensy_disabled(ln), t) EXCEPT
             !.raised = "ValueError"]
    ELSE [send_heartbeat(Teensy_disabled(ln), t) EXCEPT
             !.trace = @ \o ReportHandlers]

\* Teensy.__init__(port), lines 322-387
Teensy_init(ln, seed, pt, t) ==
    IF Abs(seed - Teensy_tick(seed, pt)) > EPS
    THEN [Teensy_disabled(ln) EXCEPT !.raised = "ValueError"]
    ELSE [send_heartbeat(Teensy_disabled(ln), t) EXCEPT
             !.trace = @ \o ReportHandlers]

\* ---- plans (stompy/leg/plans.py, stompy/consts.py) ----------------------------
PLAN_STOP_MODE == 0
PLAN_VELOCITY_MODE == 1
PLAN_ARC_MODE == 2
PLAN_TARGET_MODE == 3
PLAN_MATRIX_MODE == 4
PLAN_LEG_FRAME == 2
PLAN_BODY_FRAME == 3

\* Plan(mode, frame, linear, angular, matrix, speed); a field that is None
\* is the empty tuple; matrix is a tuple of four rows
Plan(m, f, linear, angular, matrix, speed) ==
    [mode |-> m, frame |-> f, linear |-> linear, angular |-> angular,
     matrix |-> matrix, speed |-> speed]
NoPlan == [none |-> TRUE]      \* _plan is None
\* Plan() without arguments and plans.stop(): Stop with speed 0
Plan_default == Plan(PLAN_STOP_MODE, PLAN_LEG_FRAME, <<>>, <<>>, <<>>, 0)
plans_stop == Plan(PLAN_STOP_MODE, PLAN_LEG_FRAME, <<>>, <<>>, <<>>, 0)

\* plan.packed(leg_number): the tuple sent for the plan
packed(plan, ln) ==
    CASE plan.mode = PLAN_STOP_MODE -> <<plan.mode, plan.frame, plan.speed>>
      [] plan.mode \in {PLAN_TARGET_MODE, PLAN_VELOCITY_MODE} ->
            <<plan.mode, plan.frame>> \o plan.linear \o <<plan.speed>>
      [] plan.mode = PLAN_ARC_MODE ->
            <<plan.mode, plan.frame>> \o plan.linear \o plan.angular
                \o <<plan.speed>>
      [] plan.mode = PLAN_MATRIX_MODE ->
            <<plan.mode, plan.frame>> \o plan.matrix[1] \o plan.matrix[2]
                \o plan.matrix[3] \o <<plan.speed>>

\* the arguments of send_plan: none, one Plan, or the fields of a Plan
NoArgs == [n |-> 0]
OnePlan(plan) == [n |-> 1, plan |-> plan]
PlanFields(plan) == [n |-> 2, plan |-> plan]
\* a packed plan as the value of an event or a command
Packed(pp) == [pp |-> pp]

\* LegController._pack_plan(*args, **kwargs): without arguments the first
\* test makes plans.stop(), then the else of the second test replaces it by
\* Plan()
pack_plan(o, args) ==
    LET plan0 == IF args.n = 0 THEN plans_stop ELSE NoPlan
        plan == IF args.n = 1 THEN args.plan
                ELSE IF args.n = 0 THEN Plan_default ELSE args.plan
    IN packed(plan, o.leg_number)

\* _new_plan that takes an arc plan for a target plan
FakeTeensy_new_plan_ArcAsTarget(o, pp) ==
    LET m == pp[1]
        f == pp[2]
        s == pp[Len(pp)]
        plan ==
            IF m = PLAN_STOP_MODE THEN Plan(m, f, <<>>, <<>>, <<>>, s)
            ELSE IF m = PLAN_MATRIX_MODE
            THEN Plan(m, f, <<>>, <<>>,
                      <<SubSeq(pp, 3, 6), SubSeq(pp, 7, 10),
                        SubSeq(pp, 11, 14), <<0, 0, 0, 1>> >>, s)
            ELSE Plan(m, f, SubSeq(pp, 3, 5), <<>>, <<>>, s)
    IN IF m # PLAN_STOP_MODE /\ f # PLAN_LEG_FRAME
       THEN [o EXCEPT !.raised = "NotImplementedError"]
       ELSE [o EXCEPT !.plan = plan]

\* _new_plan that also clears the time carried between matrix ticks
FakeTeensy_new_plan_ResetCarry(o, pp) ==
    LET m == pp[1]
        f == pp[2]
        s == pp[Len(pp)]
        plan ==
            IF m = PLAN_STOP_MODE THEN Plan(m, f, <<>>, <<>>, <<>>, s)
            ELSE IF m \in {PLAN_TARGET_MODE, PLAN_VELOCITY_MODE}
            THEN Plan(m, f, SubSeq(pp, 3, 5), <<>>, <<>>, s)
            ELSE IF m = PLAN_ARC_MODE
            THEN Plan(m, f, SubSeq(pp, 3, 5), SubSeq(pp, 6, 8), <<>>, s)
            ELSE Plan(m, f, <<>>, <<>>,
                      <<SubSeq(pp, 3, 6), SubSeq(pp, 7, 10),
                        SubSeq(pp, 11, 14), <<0, 0, 0, 1>> >>, s)
    IN IF m # PLAN_STOP_MODE /\ f # PLAN_LEG_FRAME
       THEN [o EXCEPT !.raised = "NotImplementedError"]
       ELSE [o EXCEPT !.plan = plan, !.ddt = 0]

\* _new_plan that stores the plan before it tests the frame
FakeTeensy_new_plan_StoreFirst(o, pp) ==
    LET m == pp[1]
        f == pp[2]
        s == pp[Len(pp)]
        plan ==
            IF m = PLAN_STOP_MODE THEN Plan(m, f, <<>>, <<>>, <<>>, s)
            ELSE IF m \in {PLAN_TARGET_MODE, PLAN_VELOCITY_MODE}
            THEN Plan(m, f, SubSeq(pp, 3, 5), <<>>, <<>>, s)
            ELSE IF m = PLAN_ARC_MODE
            THEN Plan(m, f, SubSeq(pp, 3, 5), SubSeq(pp, 6, 8), <<>>, s)
            ELSE Plan(m, f, <<>>, <<>>,
                      <<SubSeq(pp, 3, 6), SubSeq(pp, 7, 10),
                        SubSeq(pp, 11, 14), <<0, 0, 0, 1>> >>, s)
    IN IF m # PLAN_STOP_MODE /\ f # PLAN_LEG_FRAME
       THEN [o EXCEPT !.plan = plan, !.raised = "NotImplementedError"]
       ELSE [o EXCEPT !.plan = plan]

\* FakeTeensy._new_plan(pp)
FakeTeensy_new_plan(o, pp) ==
    LET m == pp[1]
        f == pp[2]
        s == pp[Len(pp)]
        plan ==
            IF m = PLAN_STOP_MODE THEN Plan(m, f, <<>>, <<>>, <<>>, s)
            ELSE IF m \in {PLAN_TARGET_MODE, PLAN_VELOCITY_MODE}
            THEN Plan(m, f, SubSeq(pp, 3, 5), <<>>, <<>>, s)
            ELSE IF m = PLAN_ARC_MODE
            THEN Plan(m, f, SubSeq(pp, 3, 5), SubSeq(pp, 6, 8), <<>>, s)
            ELSE Plan(m, f, <<>>, <<>>,
                      <<SubSeq(pp, 3, 6), SubSeq(pp, 7, 10),
                        SubSeq(pp, 11, 14), <<0, 0, 0, 1>> >>, s)
    IN IF m # PLAN_STOP_MODE /\ f # PLAN_LEG_FRAME
       THEN [o EXCEPT !.raised = "NotImplementedError"]
       ELSE [o EXCEPT !.plan = plan]

\* LegController.send_plan(*args, **kwargs); the 'plan' event of a simulated
\* leg runs its handler _new_plan
LegController_send_plan(o, args) ==
    LET pp == pack_plan(o, args)
        o1 == [o EXCEPT !.log = Append(@, Event("plan", Packed(pp))),
                        !.events = Append(@, Event("plan", Packed(pp))),
                        !.trace = Append(@, Triggered("plan"))]
    IN IF o.kind = "FakeTeensy" THEN FakeTeensy_new_plan(o1, pp) ELSE o1

\* Teensy.send_plan that transmits the plan before it triggers the event
Teensy_send_plan_SendFirst(o, args) ==
    LET pp == pack_plan(o, args)
    IN [o EXCEPT !.tx = Append(@, Cmd("plan", Packed(pp))),
                 !.log = Append(@, Event("plan", Packed(pp))),
                 !.events = Append(@, Event("plan", Packed(pp))),
                 !.trace = @ \o <<Sent("plan"), Triggered("plan")>>]

\* Teensy.send_plan(*args, **kwargs): log, event, then the plan command
Teensy_send_plan(o, args) ==
    LET pp == pack_plan(o, args)
    IN [o EXCEPT !.log = Append(@, Event("plan", Packed(pp))),
                 !.events = Append(@, Event("plan", Packed(pp))),
                 !.tx = Append(@, Cmd("plan", Packed(pp))),
                 !.trace = @ \o <<Triggered("plan"), Sent("plan")>>]

\* send_plan of the controller's class
send_plan(o, args) ==
    IF o.kind = "Teensy" THEN Teensy_send_plan(o, args)
    ELSE LegController_send_plan(o, args)

\* LegController.stop()
stop(o) == send_plan(o, OnePlan(plans_stop))

\* consts.PLAN_TICK after FakeTeensy.__init__ (lines 144-145)
FakeTeensy_tick(pt) == IF pt = NoTick THEN FAKE_TICK ELSE pt

\* ---- the simulated leg (FakeTeensy) --------------------------------------------
\* Positions are in units of 0.005 inch, angles in hundredths of a radian,
\* speeds in position units per 12.5 ms.
Inch == 200
NOISE == 10           \* _position_noise = 0.05
FLOOR == 2            \* 0.01, the distance under which a target is reached
STEP_MIN == 8         \* 0.1 s, the time between two simulation steps
TimeUnit == 25        \* 12.5 ms in half milliseconds, the unit of _ddt
HalfMs == 5000000     \* half a millisecond in the unit of PLAN_TICK
INIT_THIGH == 91      \* 0.912
INIT_KNEE == 0 - 104  \* -1.04

\* geometry: the joint limits; the hips of the middle legs 2 and 5 turn less
HIP_MIN_ANGLE == 0 - 71
HIP_MAX_ANGLE == 71
HIP_MIDDLE_MIN_ANGLE == 0 - 35
HIP_MIDDLE_MAX_ANGLE == 35
THIGH_MIN_ANGLE == 0
THIGH_MAX_ANGLE == 157
KNEE_MIN_ANGLE == 0 - 237
KNEE_MAX_ANGLE == 0

\* kinematics.leg.point_to_angles(x, y, z): hip, thigh, knee of the foot at
\* (x, y, z); kinematics.leg.angles_to_points(hip, thigh, knee)[-1]: the foot
\* of the leg with these angles. A stand-in pair of inverse maps.
point_to_angles(x, y, z) == <<y, x + z, z>>
angles_to_points(hip, thigh, knee) == <<thigh - knee, hip, knee>>

\* transforms.transform_3d(T, x, y, z): the affine map T applied to the point
transform_3d(T, x, y, z) ==
    [r \in 1..3 |-> T[r][1] * x + T[r][2] * y + T[r][3] * z + T[r][4]]

\* transforms.rotation_about_point_3d(lx, ly, lz, ax, ay, az): the rotation
\* about the vertical through (lx, ly); az counts quarter turns, ax = ay = 0
rotation_about_point_3d(lx, ly, lz, ax, ay, az) ==
    LET c == CASE az % 4 = 0 -> 1 [] az % 4 = 2 -> 0 - 1 [] OTHER -> 0
        sn == CASE az % 4 = 1 -> 1 [] az % 4 = 3 -> 0 - 1 [] OTHER -> 0
    IN << <<c, 0 - sn, 0, lx - c * lx + sn * ly>>,
          <<sn, c, 0, ly - sn * lx - c * ly>>,
          <<0, 0, 1, 0>>,
          <<0, 0, 0, 1>> >>

\* the transform T applied n times to the point v
RECURSIVE ApplyN(_, _, _)
ApplyN(T, v, n) ==
    IF n = 0 THEN v ELSE ApplyN(T, transform_3d(T, v[1], v[2], v[3]), n - 1)

\* (lx*lx + ly*ly + lz*lz) ** 0.5, to the position unit below
Reach == 2 * (THIGH_MAX_ANGLE - KNEE_MIN_ANGLE + HIP_MAX_ANGLE)
Norm(d) ==
    LET sq == d[1] * d[1] + d[2] * d[2] + d[3] * d[3]
    IN CHOOSE r \in 0..Reach : r * r <= sq /\ sq < (r + 1) * (r + 1)

Clamp(lo, hi, v) == IF v < lo THEN lo ELSE IF v > hi THEN hi ELSE v

\* not self.estop: True and the severities but off count as set
Truthy(e) == e.t # "NoneType" /\ e.v # 0

\* FakeTeensy.__init__(leg_number) at time t
FakeTeensy_init(ln, t) ==
    LET p == angles_to_points(0, INIT_THIGH, INIT_KNEE)
    IN [LegController_init("FakeTeensy", ln) EXCEPT
            !.estop = PyTrue,
            !.pwm = Snap(<<0, 0, 0>>, t),
            !.pid = Snap(<<0, 0, 0, 0, 0, 0, 0, 0, 0>>, t),
            !.adc = Snap(<<0, 0, 0, 0>>, t),
            !.angles = [hip |-> 0, thigh |-> INIT_THIGH, knee |-> INIT_KNEE,
                        calf |-> 0, time |-> t],
            !.xyz = [x |-> p[1], y |-> p[2], z |-> p[3], time |-> t]]
       @@ [position_noise |-> NOISE, last_update |-> t, plan |-> NoPlan,
           ddt |-> 0]

\* the position after the plan was followed for dt (lines 181-241), and _ddt
\* after it; pt is consts.PLAN_TICK
plan_step_NoSnap(o, dt, pt) ==
    LET pos == <<o.xyz.x, o.xyz.y, o.xyz.z>>
        pl == o.plan
        same == [pos |-> pos, ddt |-> o.ddt]
    IN IF ~(pl.frame = PLAN_LEG_FRAME /\ ~Truthy(o.estop)) THEN same
       ELSE IF pl.mode = PLAN_VELOCITY_MODE
       THEN [same EXCEPT
               !.pos = [k \in 1..3 |-> pos[k] + pl.linear[k] * dt * pl.speed]]
       ELSE IF pl.mode = PLAN_TARGET_MODE
       THEN LET d == [k \in 1..3 |-> pl.linear[k] - pos[k]]
                l == Norm(d)
            IN IF l = 0 THEN same
               ELSE [same EXCEPT
                       !.pos = [k \in 1..3 |->
                                   pos[k] + (d[k] * dt * pl.speed) \div l]]
       ELSE IF pl.mode = PLAN_MATRIX_MODE
       THEN LET ddt == o.ddt + dt * TimeUnit
                tick == pt \div HalfMs
            IN [pos |-> ApplyN(pl.matrix, pos, ddt \div tick),
                ddt |-> ddt % tick]
       ELSE same

plan_step(o, dt, pt) ==
    LET pos == <<o.xyz.x, o.xyz.y, o.xyz.z>>
        pl == o.plan
        same == [pos |-> pos, ddt |-> o.ddt]
    IN IF ~(pl.frame = PLAN_LEG_FRAME /\ ~Truthy(o.estop)) THEN same
       ELSE IF pl.mode = PLAN_VELOCITY_MODE
       THEN [same EXCEPT
               !.pos = [k \in 1..3 |-> pos[k] + pl.linear[k] * dt * pl.speed]]
       ELSE IF pl.mode = PLAN_TARGET_MODE
       THEN LET d == [k \in 1..3 |-> pl.linear[k] - pos[k]]
                l == Norm(d)
            IN IF l < pl.speed * dt \/ l < FLOOR
               THEN [same EXCEPT !.pos = [k \in 1..3 |-> pl.linear[k]]]
               ELSE [same EXCEPT
                       !.pos = [k \in 1..3 |->
                                   pos[k] + (d[k] * dt * pl.speed) \div l]]
       ELSE IF pl.mode = PLAN_ARC_MODE
       THEN LET T == rotation_about_point_3d(
                         pl.linear[1], pl.linear[2], pl.linear[3],
                         pl.angular[1] * pl.speed * dt,
                         pl.angular[2] * pl.speed * dt,
                         pl.angular[3] * pl.speed * dt)
            IN [same EXCEPT !.pos = transform_3d(T, pos[1], pos[2], pos[3])]
       ELSE IF pl.mode = PLAN_MATRIX_MODE
       THEN LET ddt == o.ddt + dt * TimeUnit
                tick == pt \div HalfMs   \* PLAN_TICK is in whole ms
            IN [pos |-> ApplyN(pl.matrix, pos, ddt \div tick),
                ddt |-> ddt % tick]
       ELSE same

\* the target step of plan_step is exact in the position unit
exact_step(o, dt) ==
    LET pos == <<o.xyz.x, o.xyz.y, o.xyz.z>>
        pl == o.plan
        d == [k \in 1..3 |-> pl.linear[k] - pos[k]]
        l == Norm(d)
    IN (/\ pl # NoPlan
        /\ pl.frame = PLAN_LEG_FRAME /\ ~Truthy(o.estop)
        /\ pl.mode = PLAN_TARGET_MODE) =>
           /\ l * l = d[1] * d[1] + d[2] * d[2] + d[3] * d[3]
           /\ ~(l < pl.speed * dt \/ l < FLOOR) =>
                 \A k \in 1..3 : (d[k] * dt * pl.speed) % l = 0

\* the hip limits of the leg (lines 251-256)
hip_limits(ln) ==
    IF ln \in {2, 5}
    THEN <<HIP_MIDDLE_MIN_ANGLE, HIP_MIDDLE_MAX_ANGLE>>
    ELSE <<HIP_MIN_ANGLE, HIP_MAX_ANGLE>>

\* the angles a held within the limits of leg ln (lines 251-275)
limited(ln, a) ==
    <<Clamp(hip_limits(ln)[1], hip_limits(ln)[2], a[1]),
      Clamp(THIGH_MIN_ANGLE, THIGH_MAX_ANGLE, a[2]),
      Clamp(KNEE_MIN_ANGLE, KNEE_MAX_ANGLE, a[3])>>

\* the calf load computed from the height z of the foot (lines 285-294)
calf_load(z) ==
    (0 - (Clamp(0 - 45 * Inch, 0 - 40 * Inch, z) + 40 * Inch) * 400)
        \div Inch

\* the end of _follow_plan (lines 248-294): the position np with angles a
\* is stored if a = ca, the limited angles, else the position of ca is
\* stored and estop becomes HOLD
settle(o, np, a, ca) ==
    LET fp == IF ca = a THEN np ELSE angles_to_points(ca[1], ca[2], ca[3])
        o2 == [o EXCEPT !.xyz.x = fp[1], !.xyz.y = fp[2], !.xyz.z = fp[3],
                        !.angles.hip = ca[1], !.angles.thigh = ca[2],
                        !.angles.knee = ca[3],
                        !.angles.calf = calf_load(fp[3])]
    IN IF ca = a THEN o2 ELSE LegController_set_estop(o2, Sev(ESTOP_HOLD))

\* the position pos with the noise xyzn added (lines 243-247)
noisy(o, pos, xyzn) ==
    IF o.position_noise # 0 THEN [k \in 1..3 |-> pos[k] + xyzn[k]] ELSE pos

\* lines 248-294 for the position np
check_limits(o, np) ==
    settle(o, np, point_to_angles(np[1], np[2], np[3]),
           limited(o.leg_number, point_to_angles(np[1], np[2], np[3])))

\* lines 181-294 for st, the step of the plan
moved(o, st, xyzn) ==
    check_limits([o EXCEPT !.ddt = st.ddt], noisy(o, st.pos, xyzn))

\* FakeTeensy._follow_plan(t, dt): xyzn is the noise drawn, pt is
\* consts.PLAN_TICK
FakeTeensy_follow_plan(o, t, dt, xyzn, pt) ==
    IF o.plan = NoPlan
    THEN [o EXCEPT !.xyz.time = t, !.angles.time = t]
    ELSE moved([o EXCEPT !.xyz.time = t, !.angles.time = t],
               plan_step(o, dt, pt), xyzn)

\* the telemetry events of a step, in the order triggered
TelemetryOrder == <<"adc", "pwm", "pid", "angles", "xyz">>
RECURSIVE TriggerAll(_, _)
TriggerAll(o, names) ==
    IF names = <<>> THEN o
    ELSE TriggerAll(
             [o EXCEPT !.events = Append(@, Event(Head(names), o[Head(names)])),
                       !.trace = Append(@, Triggered(Head(names)))],
             Tail(names))

\* update that steps when 100 ms or more have passed
FakeTeensy_update_AtLeast(o, t, xyzn, pt) ==
    LET dt == t - o.last_update
    IN IF dt >= STEP_MIN
       THEN LET o1 == FakeTeensy_follow_plan(o, t, dt, xyzn, pt)
                o2 == [o1 EXCEPT !.angles.time = t, !.adc.time = t,
                                 !.xyz.time = t, !.pwm.time = t,
                                 !.pid.time = t]
            IN [TriggerAll(o2, TelemetryOrder) EXCEPT !.last_update = t]
       ELSE o

\* FakeTeensy.update() at time t
FakeTeensy_update(o, t, xyzn, pt) ==
    LET dt == t - o.last_update
    IN IF dt > STEP_MIN
       THEN LET o1 == FakeTeensy_follow_plan(o, t, dt, xyzn, pt)
                o2 == [o1 EXCEPT !.angles.time = t, !.adc.time = t,
                                 !.xyz.time = t, !.pwm.time = t,
                                 !.pid.time = t]
            IN [TriggerAll(o2, TelemetryOrder) EXCEPT !.last_update = t]
       ELSE o

\* ---- the leg controllers of one process ------------------------------------
\* the call that ran last: its arguments and its outputs
Call(op, i, value, rx, err, seed, o) ==
    [op |-> op, leg |-> i, value |-> value, rx |-> rx, err |-> err,
     seed |-> seed, tx |-> o.tx, events |-> o.events, log |-> o.log,
     raised |-> o.raised, trace |-> o.trace,
     discover |-> FALSE, ports |-> <<>>, opened |-> <<>>, ret |-> <<>>]
NoCall == Call("none", 0, EstopNone, <<>>, FALSE, 0,
               LegController_init("none", 0))

\* ---- the trajectory buffer (tests/action_server.py) -----------------------------
\* the largest point id (next_id)
MAX_ID == 255

\* LegPoint(pid, positions, point_time): not sent, teensy_index is -1
LegPoint(pid, positions, point_time) ==
    [pid |-> pid, positions |-> positions, point_time |-> point_time,
     teensy_index |-> -1]

\* LegPoint.in_future(current_time)
in_future(pt, current_time) == pt.point_time > current_time

\* TrajectoryBuffer(): _points is a dict, here a function of the point ids
TrajectoryBuffer_init == [id |-> 0, points |-> <<>>]

\* the dict d without the keys S, and with d[k] = v
Without(d, S) == [k \in DOMAIN d \ S |-> d[k]]
With(d, k, v) == [j \in DOMAIN d \cup {k} |-> IF j = k THEN v ELSE d[j]]

\* TrajectoryBuffer.next_id(): the buffer with the counter moved on
next_id(b) == [b EXCEPT !.id = IF @ + 1 > MAX_ID THEN 0 ELSE @ + 1]

\* TrajectoryBuffer.add_point(point_time, positions)
add_point(b, point_time, positions) ==
    LET b1 == next_id(b)
    IN [b1 EXCEPT !.points =
                     With(@, b1.id, LegPoint(b1.id, positions, point_time))]

\* TrajectoryBuffer.drop_later_points(point_time): the buffer and the dict
\* returned
drop_later_points(b, point_time) ==
    LET later == {pid \in DOMAIN b.points :
                     in_future(b.points[pid], point_time)}
    IN [b |-> [b EXCEPT !.points = Without(@, later)],
        dropped |-> Without(b.points, DOMAIN b.points \ later)]

\* the loop of append_trajectory from point k on: first is never cleared, so
\* every point that is not in the past drops the later points and replaces
\* dropped_points
RECURSIVE append_points(_, _, _, _, _, _)
append_points(b, dropped, pts, k, start_time, t) ==
    IF k > Len(pts) THEN [b |-> b, dropped |-> dropped]
    ELSE LET point_time == start_time + pts[k].time_from_start
         IN IF point_time < t
            THEN append_points(b, dropped, pts, k + 1, start_time, t)
            ELSE LET d == drop_later_points(b, point_time)
                 IN append_points(add_point(d.b, point_time, pts[k].positions),
                                  d.dropped, pts, k + 1, start_time, t)

\* TrajectoryBuffer.append_trajectory(trajectory): rospy.Time.now() returns t
\* and, for a trajectory with a zero stamp, t2 when it is read again
append_trajectory(b, trajectory, t, t2) ==
    LET start_time == IF trajectory.stamp = 0 THEN t2 ELSE trajectory.stamp
    IN append_points(b, <<>>, trajectory.points, 1, start_time, t)

\* TrajectoryBuffer.__delitem__(pid) for a point that was not sent
delitem(b, pid) == [b EXCEPT !.points = Without(@, {pid})]

\* no append_trajectory has run
NoAppend == [op |-> "none"]
NoPoints == buffer = TrajectoryBuffer_init /\ appended = NoAppend

\* no leg controller has been constructed, PLAN_TICK is None
NoLegs ==
    legs = <<>> /\ PLAN_TICK = NoTick /\ clock = 0 /\ call = NoCall /\ NoPoints

\* tick times a microcontroller reports: 25 ms, 25 ms as a float32, 25 ms and
\* 2 ns, 24.6 ms, 4 ms
SeedTimes == {250000000, 250000004, 250000020, 246000000, 40000000}
\* what one update() finds in the stream
Streams == {<<>>, <<Sev(ESTOP_HOLD)>>}

\* Teensy(port) for a microcontroller that reports seed
NewTeensy(seed) ==
    LET o == Teensy_init(Len(legs) + 1, seed, PLAN_TICK, clock)
    IN /\ Len(legs) < MaxCtl
       /\ PLAN_TICK' = Teensy_tick(seed, PLAN_TICK)
       /\ legs' = IF o.raised = "no" THEN Append(legs, Attrs(o)) ELSE legs
       /\ call' = Call("Teensy", Len(legs) + 1, EstopNone, <<>>, FALSE, seed, o)
       /\ UNCHANGED <<clock, BodyState>>

\* FakeTeensy(leg_number)
NewFakeTeensy ==
    LET o == FakeTeensy_init(Len(legs) + 1, clock)
    IN /\ Len(legs) < MaxCtl
       /\ PLAN_TICK' = FakeTeensy_tick(PLAN_TICK)
       /\ legs' = Append(legs, Attrs(o))
       /\ call' = Call("FakeTeensy", Len(legs) + 1, EstopNone, <<>>, FALSE, 0, o)
       /\ UNCHANGED <<clock, BodyState>>

\* legs[i].set_estop(value), called by the host
SetEstop(i, value) ==
    LET o == set_estop(Obj(legs[i]), value)
    IN /\ legs' = [legs EXCEPT ![i] = Attrs(o)]
       /\ call' = Call("set_estop", i, value, <<>>, FALSE, 0, o)
       /\ UNCHANGED <<PLAN_TICK, clock, BodyState>>

\* legs[i].update() of a serial leg
Update(i, rx, err) ==
    LET o == Teensy_update(Obj(legs[i]), rx, err, clock)
    IN /\ legs[i].kind = "Teensy"
       /\ legs' = [legs EXCEPT ![i] = Attrs(o)]
       /\ call' = Call("update", i, EstopNone, rx, err, 0, o)
       /\ UNCHANGED <<PLAN_TICK, clock, BodyState>>

\* time passes: d units of 12.5 ms
Elapse(d) ==
    /\ clock' = clock + d
    /\ UNCHANGED <<legs, PLAN_TICK, call, BodyState>>

\* the times the update loop lets pass between two calls, none longer than
\* HEARTBEAT_PERIOD
BeatGaps == {5, 15, 25, HEARTBEAT_PERIOD}

\* the update loop of leg i: d units after the previous call, or after the
\* construction, update() runs on a stream without errors
UpdateAfter(i, d, rx) ==
    LET o == Teensy_update(Obj(legs[i]), rx, FALSE, clock + d)
    IN /\ clock + d <= MaxBeatClock * HalfSecond
       /\ legs[i].kind = "Teensy"
       /\ clock' = clock + d
       /\ legs' = [legs EXCEPT ![i] = Attrs(o)]
       /\ call' = Call("update", i, EstopNone, rx, FALSE, 0, o)
       /\ UNCHANGED <<PLAN_TICK, BodyState>>

\* half a second passes
Tick ==
    /\ clock + HalfSecond <= MaxClock * HalfSecond
    /\ Elapse(HalfSecond)

\* FakeTeensy(ln) as the only leg of the process
NewSimLeg(ln) ==
    LET o == FakeTeensy_init(ln, clock)
    IN /\ legs = <<>>
       /\ PLAN_TICK' = FakeTeensy_tick(PLAN_TICK)
       /\ legs' = <<Attrs(o)>>
       /\ call' = Call("FakeTeensy", 1, EstopNone, <<>>, FALSE, 0, o)
       /\ UNCHANGED <<clock, BodyState>>

\* legs[i].update() of a simulated leg; xyzn is the noise numpy.random draws
SimUpdate(i, xyzn) ==
    LET o == FakeTeensy_update(Obj(legs[i]), clock, xyzn, PLAN_TICK)
    IN /\ legs[i].kind = "FakeTeensy"
       /\ exact_step(legs[i], clock - legs[i].last_update)
       /\ legs' = [legs EXCEPT ![i] = Attrs(o)]
       /\ call' = Call("update", i, [xyzn |-> xyzn], <<>>, FALSE, 0, o)
       /\ UNCHANGED <<PLAN_TICK, clock, BodyState>>

\* legs[i].send_plan(*args)
SendPlan(i, args) ==
    LET o == send_plan(Obj(legs[i]), args)
    IN /\ legs' = [legs EXCEPT ![i] = Attrs(o)]
       /\ call' = Call("send_plan", i, args, <<>>, FALSE, 0, o)
       /\ UNCHANGED <<PLAN_TICK, clock, BodyState>>

\* legs[i].stop()
StopLeg(i) ==
    LET o == stop(Obj(legs[i]))
    IN /\ legs' = [legs EXCEPT ![i] = Attrs(o)]
       /\ call' = Call("stop", i, NoArgs, <<>>, FALSE, 0, o)
       /\ UNCHANGED <<PLAN_TICK, clock, BodyState>>

\* legs[i]._position_noise = 0.: the caller disables the jitter
DisableNoise(i) ==
    /\ legs[i].kind = "FakeTeensy"
    /\ legs[i].position_noise # 0
    /\ legs' = [legs EXCEPT ![i].position_noise = 0]
    /\ call' = Call("disable_noise", i, EstopNone, <<>>, FALSE, 0,
                    Obj(legs[i]))
    /\ UNCHANGED <<PLAN_TICK, clock, BodyState>>

\* ---- connect_to_teensies ----------------------------------------------------
NoPort == 0                    \* a discovered teensy whose 'port' is None
Ports == 1..MaxPorts           \* port k is a serial device
LegNums == {1, 2}              \* leg numbers the microcontrollers report
ConnSeeds == {250000000, 40000000}

\* the simulated legs of the commented-out line 550
SimLegNumbers_Four == <<1, 3, 4, 6>>

\* the simulated legs made when there is no port (line 549)
SimLegNumbers == <<1, 2, 3, 4, 5, 6>>

\* any([p is None for p in ports])
missing_port(plist) == \E k \in 1..Len(plist) : plist[k] = NoPort

\* no leg number is taken for ambiguous
ambiguous_Never(made) == FALSE

\* some lnd[ln] holds more than one controller (lines 556-560)
ambiguous(made) ==
    \E j, k \in 1..Len(made) : j # k /\ made[j].leg_number = made[k].leg_number

\* teensies = [Teensy(p) for p in ports] from the k-th port on; wire[p] is
\* what the microcontroller on port p reports. A constructor that raises
\* ends the comprehension.
RECURSIVE make_teensies(_, _, _, _, _)
make_teensies(plist, wire, acc, t, k) ==
    IF k > Len(plist) \/ acc.raised # "no" THEN acc
    ELSE LET p == plist[k]
             o == Teensy_init(wire[p].ln, wire[p].seed, acc.pt, t)
         IN make_teensies(plist, wire,
                [made |-> IF o.raised = "no"
                          THEN Append(acc.made, Attrs(o)) ELSE acc.made,
                 opened |-> Append(acc.opened, p),
                 pt |-> Teensy_tick(wire[p].seed, acc.pt),
                 raised |-> o.raised,
                 ret |-> <<>>], t, k + 1)

\* lnd: leg number -> the place in made of its controller (the last one if
\* ambiguous_Never let several through)
lnd(made) ==
    [ln \in {made[k].leg_number : k \in 1..Len(made)} |->
        CHOOSE k \in 1..Len(made) :
            /\ made[k].leg_number = ln
            /\ \A j \in 1..Len(made) : made[j].leg_number = ln => j <= k]

\* connect_to_teensies(ports): discover says ports was None and plist is what
\* utils.find_teensies_by_type('leg') found. The result: the exception
\* raised, the controllers made, the ports opened, PLAN_TICK, the dict
\* returned as leg number -> place in made.
connect_to_teensies(discover, plist, wire, pt, t) ==
    IF discover /\ missing_port(plist)
    THEN [made |-> <<>>, opened |-> <<>>, pt |-> pt, raised |-> "IOError",
          ret |-> <<>>]
    ELSE IF Len(plist) = 0
    THEN [made |-> [k \in 1..Len(SimLegNumbers) |->
                       Attrs(FakeTeensy_init(SimLegNumbers[k], t))],
          opened |-> <<>>, pt |-> FakeTeensy_tick(pt), raised |-> "no",
          ret |-> [ln \in {SimLegNumbers[k] : k \in 1..Len(SimLegNumbers)} |->
                      CHOOSE k \in 1..Len(SimLegNumbers) : SimLegNumbers[k] = ln]]
    ELSE LET a == make_teensies(plist, wire,
                      [made |-> <<>>, opened |-> <<>>, pt |-> pt,
                       raised |-> "no", ret |-> <<>>], t, 1)
         IN IF a.raised # "no" THEN a
            ELSE IF ambiguous(a.made) THEN [a EXCEPT !.raised = "Exception"]
            ELSE [a EXCEPT !.ret = lnd(a.made)]

\* lists of distinct entries of S, of length at most n
Lists(S, n) ==
    {q \in UNION {[1..m -> S] : m \in 0..n} :
        \A j, k \in 1..Len(q) : j # k => q[j] # q[k]}

\* The process calls connect_to_teensies once, before it has any leg.
Connect(discover, plist, wire) ==
    LET a == connect_to_teensies(discover, plist, wire, PLAN_TICK, clock)
    IN /\ call.op = "none"
       /\ legs' = a.made
       /\ PLAN_TICK' = a.pt
       /\ call' = [NoCall EXCEPT !.op = "connect", !.raised = a.raised,
                                 !.discover = discover, !.ports = plist,
                                 !.opened = a.opened, !.ret = a.ret]
       /\ UNCHANGED <<clock, BodyState>>

\* ---- the state machine -----------------------------------------------------
Legs == DOMAIN feet

\* the threads that may deliver restriction events, and a thread outside
\* on_restriction
Threads == {"worker1", "worker2"}
Outside == [pc |-> "outside", leg |-> 0]
NoThreads == inflight = [t \in Threads |-> Outside]

\* Body(legs) for the leg ids S: the feet are made, then disable() runs
ConstructIds(S) ==
    LET b == disable([enabled |-> FALSE, halted |-> FALSE,
                      target |-> NoneTarget, pre_halt_target |-> Unset,
                      speed_scalar |-> 1, feet |-> [l \in S |-> NewFoot],
                      neighbors |-> ring(SortedSeq(S)), time |-> 1,
                      raised |-> FALSE, log |-> <<>>, sent |-> <<>>,
                      res |-> "ok"])
    IN /\ enabled = b.enabled
       /\ halted = b.halted
       /\ target = b.target
       /\ pre_halt_target = b.pre_halt_target
       /\ speed_scalar = b.speed_scalar
       /\ neighbors = b.neighbors
       /\ feet = b.feet
       /\ now = b.time
       /\ last = [op |-> "init", res |-> "ok", raised |-> FALSE,
                  log |-> b.log, sent |-> <<>>]
       /\ intended = NoneTarget

\* Body(legs) for the legs 1..n
Construct(n) == ConstructIds(1..n)

Init == (\E n \in 1..MaxLegs : Construct(n)) /\ NoThreads /\ NoLegs

\* the attributes of Body b and the outputs of the call are stored
Store(b, op) ==
    /\ enabled' = b.enabled
    /\ halted' = b.halted
    /\ target' = b.target
    /\ pre_halt_target' = b.pre_halt_target
    /\ speed_scalar' = b.speed_scalar
    /\ feet' = b.feet
    /\ neighbors' = b.neighbors
    /\ now' = b.time
    /\ last' = [op |-> op, res |-> b.res, raised |-> b.raised,
                log |-> b.log, sent |-> b.sent]

\* the state after a handler returned (or raised) with Body b
Return(b, op) ==
    /\ Store(b, op)
    /\ UNCHANGED <<inflight, LegState>>

Enable(foot_states) ==
    /\ Return(enable(Self, foot_states), "enable")
    /\ UNCHANGED intended

Disable ==
    /\ Return(disable(Self), "disable")
    /\ UNCHANGED intended

SetTarget(t, us) ==
    /\ Return(set_target(Self, t, us), "set_target")
    /\ intended' = IF IsBodyTarget(t) THEN t ELSE intended

SetSpeed(s) ==
    /\ Return(set_speed(Self, s), "set_speed")
    /\ UNCHANGED intended

Halt ==
    /\ Return(halt(Self), "halt")
    /\ intended' = IF halted THEN intended ELSE target

\* A foot computes its restriction r, stores it and triggers 'restriction';
\* Body.on_restriction runs as the handler.
FootRestriction(l, r) ==
    LET b == on_restriction([Self EXCEPT !.feet[l].restriction = r], r, l)
    IN /\ b.res = "lift" => now <= MaxTime
       /\ Return(b, "on_restriction")
       /\ intended' = IF b.res = "halt" THEN target ELSE intended

\* The same event on a clock that no specification bounds here.
FootReports(l, r) ==
    LET b == on_restriction([Self EXCEPT !.feet[l].restriction = r], r, l)
    IN /\ Return(b, "on_restriction")
       /\ intended' = IF b.res = "halt" THEN target ELSE intended

\* A foot moves on in its cycle by itself.
FootStep(l) ==
    /\ feet[l].state # "stance"
    /\ feet' = [feet EXCEPT ![l].state = FootNextState(@)]
    /\ UNCHANGED <<enabled, halted, target, pre_halt_target, speed_scalar,
                   neighbors, now, last, intended, inflight, LegState>>

Next ==
    \/ \E fs \in FootStateArgs : Enable(fs)
    \/ Disable
    \/ \E t \in CallerTargets \cup {NotATarget}, us \in BOOLEAN : SetTarget(t, us)
    \/ \E s \in SpeedScalars : SetSpeed(s)
    \/ Halt
    \/ \E l \in Legs, r \in RVals : FootRestriction(l, r)
    \/ \E l \in Legs : FootStep(l)

Spec == Init /\ [][Next]_vars

\* The gait: restriction events below r_max, for up to MaxLegs legs.
NextGait ==
    \/ \E fs \in FootStateArgs : Enable(fs)
    \/ Disable
    \/ \E l \in Legs, r \in {0, 6} : FootRestriction(l, r)
    \/ \E l \in Legs : FootStep(l)

SpecGait == Init /\ [][NextGait]_vars

\* Halting: a Body of two legs with targets; set_speed re-applies the speed.
\* Restrictions are below r_thresh, exactly r_max (which lifts) or above r_max.
InitHalt == Construct(2) /\ NoThreads /\ NoLegs

NextHalt ==
    \/ \E fs \in FootStateArgs : Enable(fs)
    \/ \E t \in CallerTargets \cup {NotATarget}, us \in BOOLEAN : SetTarget(t, us)
    \/ \E s \in {1} : SetSpeed(s)
    \/ Halt
    \/ Disable
    \/ \E l \in Legs, r \in {0, 9, 10} :
          /\ FootRestriction(l, r)
          /\ last'.res = "lift" => now <= MaxHaltTime
    \/ \E l \in Legs : FootStep(l)

SpecHalt == InitHalt /\ [][NextHalt]_vars

\* Ranking: a Body of three legs, each of which can have lifted before the
\* others; halt() is called from outside.
InitRank == Construct(3) /\ NoThreads /\ NoLegs

NextRank ==
    \/ \E fs \in FootStateArgs : Enable(fs)
    \/ Halt
    \/ \E l \in Legs, r \in {0, 6} :
          /\ now <= MaxRankTime
          /\ FootReports(l, r)
    \/ \E l \in Legs : FootStep(l)

SpecRank == InitRank /\ [][NextRank]_vars

\* The calls of a planner: targets and speeds set on a Body of two legs whose
\* feet stay where they are.
NextSpeed ==
    \/ \E fs \in FootStateArgs : Enable(fs)
    \/ Disable
    \/ \E t \in CallerTargets \cup {NotATarget}, us \in BOOLEAN : SetTarget(t, us)
    \/ \E s \in SpeedScalars : SetSpeed(s)
    \/ Halt

SpecSpeed == InitHalt /\ [][NextSpeed]_vars

\* Bodies over any leg ids: the ids are some of the six legs, at most
\* MaxLegs of them, and at most MaxHaltTime feet are lifted.
LegIds == 1..6
InitRing ==
    /\ \E S \in SUBSET LegIds :
          /\ Cardinality(S) \in 1..MaxLegs
          /\ ConstructIds(S)
    /\ NoThreads /\ NoLegs

NextRing ==
    \/ \E fs \in FootStateArgs : Enable(fs)
    \/ Disable
    \/ \E l \in Legs, r \in {6} :
          /\ FootRestriction(l, r)
          /\ last'.res = "lift" => now <= MaxHaltTime
    \/ \E l \in Legs : FootStep(l)

SpecRing == InitRing /\ [][NextRing]_vars

\* ---- on_restriction called from worker threads ----------------------------
\* Thread t enters on_restriction for leg l, whose foot has stored r, and runs
\* it up to the decision (lines 140-224). A call that does not lift returns
\* at once; a call that decided to lift has yet to run set_state('lift').
ThreadEnter(t, l, r) ==
    LET b == on_restriction([Self EXCEPT !.feet[l].restriction = r], r, l)
    IN /\ inflight[t] = Outside
       /\ \A u \in Threads : inflight[u].leg # l   \* a leg has one worker
       /\ IF b.res = "lift"
          THEN /\ now <= MaxTime
               /\ feet' = [feet EXCEPT ![l].restriction = r]
               /\ inflight' = [inflight EXCEPT
                                  ![t] = [pc |-> "set_state", leg |-> l]]
               /\ UNCHANGED <<enabled, halted, target, pre_halt_target,
                              speed_scalar, neighbors, now, last>>
          ELSE /\ Store(b, "on_restriction")
               /\ UNCHANGED inflight
       /\ UNCHANGED <<intended, LegState>>

\* Thread t runs self.feet[leg_number].set_state('lift') (lines 225, 229).
ThreadSetState(t) ==
    /\ inflight[t].pc = "set_state"
    /\ feet' = [feet EXCEPT
                   ![inflight[t].leg] = Foot_set_state(@, "lift", now)]
    /\ now' = now + 1
    /\ last' = [op |-> "on_restriction", res |-> "lift", raised |-> FALSE,
                log |-> <<>>, sent |-> <<>>]
    /\ inflight' = [inflight EXCEPT ![t] = Outside]
    /\ UNCHANGED <<enabled, halted, target, pre_halt_target, speed_scalar,
                   neighbors, intended, LegState>>

InitThreads == (\E n \in 2..MaxLegs : Construct(n)) /\ NoThreads /\ NoLegs

NextThreads ==
    \/ \E fs \in FootStateArgs : Enable(fs)
    \/ \E t \in Threads, l \in Legs, r \in {0, 6} : ThreadEnter(t, l, r)
    \/ \E t \in Threads : ThreadSetState(t)
    \/ \E l \in Legs : FootStep(l)

SpecThreads == InitThreads /\ [][NextThreads]_vars

\* ---- the leg controllers: construction, estop, update ---------------------
InitLeg == Construct(1) /\ NoThreads /\ NoLegs

\* Construction and estop: legs are constructed, the host sets estop, the
\* microcontrollers report estop.
NextLeg ==
    \/ \E seed \in SeedTimes : NewTeensy(seed)
    \/ NewFakeTeensy
    \/ \E i \in DOMAIN legs, v \in EstopLevels : SetEstop(i, v)
    \/ \E i \in DOMAIN legs, rx \in Streams, err \in BOOLEAN : Update(i, rx, err)

SpecLeg == InitLeg /\ [][NextLeg]_vars

\* The update loop: serial legs that agree on the tick time are updated as
\* time passes.
NextBeat ==
    \/ \E seed \in {FAKE_TICK} : NewTeensy(seed)
    \/ \E i \in DOMAIN legs, rx \in Streams, err \in BOOLEAN : Update(i, rx, err)
    \/ Tick

SpecBeat == InitLeg /\ [][NextBeat]_vars

\* The update loop on time: one serial leg whose update() follows the
\* construction and the previous update() within HEARTBEAT_PERIOD.
NextWatch ==
    \/ \E seed \in {FAKE_TICK} : legs = <<>> /\ NewTeensy(seed)
    \/ \E i \in DOMAIN legs, d \in BeatGaps, rx \in Streams : UpdateAfter(i, d, rx)

SpecWatch == InitLeg /\ [][NextWatch]_vars

\* Telemetry: one serial leg whose stream holds report frames.
TeleKinds == {"adc", "pid", "pwm", "angles", "xyz"}
TeleFrames ==
    {Report("adc", <<1, 2, 3, 4>>), Report("adc", <<5, 6, 7, 8>>),
     Report("xyz", <<1, 2, 3>>), Sev(ESTOP_HOLD)}
TeleStreams == UNION {[1..m -> TeleFrames] : m \in 0..2}

NextTelemetry ==
    \/ \E seed \in {FAKE_TICK} : legs = <<>> /\ NewTeensy(seed)
    \/ \E i \in DOMAIN legs, rx \in TeleStreams, err \in BOOLEAN :
          Update(i, rx, err)
    \/ Tick

SpecTelemetry == InitLeg /\ [][NextTelemetry]_vars

\* The simulated leg: one FakeTeensy, numbered 1 or 2 (a middle leg), is
\* given plans in the leg frame and updated as time passes.
SimStart == angles_to_points(0, INIT_THIGH, INIT_KNEE)
Identity4 == << <<1, 0, 0, 0>>, <<0, 1, 0, 0>>, <<0, 0, 1, 0>>, <<0, 0, 0, 1>> >>
\* velocity along y; a target 40 units off in y, beyond the hip limit of a
\* middle leg; a target one unit off, at speed 0; a matrix that shifts x by 1
SimPlans ==
    {Plan(PLAN_VELOCITY_MODE, PLAN_LEG_FRAME, <<0, 1, 0>>, <<>>, <<>>, 4),
     Plan(PLAN_TARGET_MODE, PLAN_LEG_FRAME,
          <<SimStart[1], SimStart[2] + 40, SimStart[3]>>, <<>>, <<>>, 4),
     Plan(PLAN_TARGET_MODE, PLAN_LEG_FRAME,
          <<SimStart[1], SimStart[2] + 1, SimStart[3]>>, <<>>, <<>>, 0),
     Plan(PLAN_MATRIX_MODE, PLAN_LEG_FRAME, <<>>, <<>>,
          [Identity4 EXCEPT ![1][4] = 1], 1)}
\* noise drawn: none, a step in y, the largest step down
NoiseVecs == {<<0, 0, 0>>, <<0, 1, 0>>, <<0, 0, 0 - NOISE>>}

NextSim ==
    \/ \E ln \in {1, 2} : NewSimLeg(ln)
    \/ \E i \in DOMAIN legs, xyzn \in NoiseVecs : SimUpdate(i, xyzn)
    \/ \E i \in DOMAIN legs, plan \in SimPlans : SendPlan(i, OnePlan(plan))
    \/ \E i \in DOMAIN legs, v \in {Sev(ESTOP_OFF), Sev(ESTOP_HOLD)} :
          SetEstop(i, v)
    \/ \E i \in DOMAIN legs : DisableNoise(i)
    \/ \E d \in {STEP_MIN, STEP_MIN + 1} :
          clock + d <= MaxSimTime /\ Elapse(d)

SpecSim == InitLeg /\ [][NextSim]_vars

\* ---- plans dispatched to serial and simulated legs ----------------------------
\* a plan of every mode in the leg frame, and a velocity plan and a Stop plan
\* in the body frame
AllPlans ==
    {plans_stop,
     Plan(PLAN_STOP_MODE, PLAN_BODY_FRAME, <<>>, <<>>, <<>>, 0),
     Plan(PLAN_VELOCITY_MODE, PLAN_LEG_FRAME, <<0, 1, 0>>, <<>>, <<>>, 4),
     Plan(PLAN_TARGET_MODE, PLAN_LEG_FRAME, <<7, 8, 9>>, <<>>, <<>>, 1),
     Plan(PLAN_ARC_MODE, PLAN_LEG_FRAME, <<1, 2, 3>>, <<0, 0, 1>>, <<>>, 2),
     Plan(PLAN_MATRIX_MODE, PLAN_LEG_FRAME, <<>>, <<>>,
          <<<<1, 0, 0, 1>>, <<0, 1, 0, 2>>, <<0, 0, 1, 3>>, <<0, 0, 0, 1>> >>,
          1),
     Plan(PLAN_VELOCITY_MODE, PLAN_BODY_FRAME, <<1, 0, 0>>, <<>>, <<>>, 3)}
\* send_plan() , send_plan(plan), send_plan(mode=.., frame=.., ...)
AllArgs ==
    {NoArgs} \cup {OnePlan(pl) : pl \in AllPlans}
        \cup {PlanFields(pl) : pl \in AllPlans}
NextPlan ==
    \/ NewTeensy(FAKE_TICK)
    \/ NewFakeTeensy
    \/ \E i \in DOMAIN legs, args \in AllArgs : SendPlan(i, args)
    \/ \E i \in DOMAIN legs : StopLeg(i)

SpecPlan == InitLeg /\ [][NextPlan]_vars

\* ---- trajectories appended to the buffer -----------------------------------------
\* everything but the state of the action server
Robot == <<enabled, halted, target, pre_halt_target, speed_scalar, feet,
           neighbors, now, last, intended, inflight, legs, PLAN_TICK, clock,
           call>>

\* the points of a trajectory and the stamps of its header; stamp 0 is the
\* blank stamp
TrajPoints == [time_from_start : {0, 2}, positions : {<<0, 0, 0>>, <<1, 1, 1>>}]
TrajStamps == {0, 2}
\* the sequences over S of at most n elements
UpTo(S, n) == UNION {[1..m -> S] : m \in 0..n}

\* rospy.Time.now() is never zero: it is one ahead of the clock
RosNow == clock + 1

\* buffer.append_trajectory(trajectory); a blank stamp is replaced by a
\* second reading of the time, which is later by `later`
AppendTrajectory(trajectory, later) ==
    LET r == append_trajectory(buffer, trajectory, RosNow, RosNow + later)
    IN /\ buffer.id <= MaxAdds \/ buffer.id >= MAX_ID - 1
       /\ Cardinality(DOMAIN buffer.points) <= MaxPoints
       /\ trajectory.stamp # 0 => later = 0
       /\ buffer' = r.b
       /\ appended' = [op |-> "append_trajectory", trajectory |-> trajectory,
                       later |-> later, ret |-> r.dropped]
       /\ UNCHANGED Robot

\* del buffer[pid]: the point was reached
DelItem(pid) ==
    /\ buffer' = delitem(buffer, pid)
    /\ appended' = [op |-> "delitem"]
    /\ UNCHANGED Robot

\* The action server: trajectories arrive as time passes; the id counter
\* starts at 0 or, after earlier trajectories were followed to their end,
\* two short of its wrap.
InitBuffer ==
    /\ Construct(1) /\ NoThreads
    /\ legs = <<>> /\ PLAN_TICK = NoTick /\ clock = 0 /\ call = NoCall
    /\ \E id \in {0, MAX_ID - 1} :
          buffer = [TrajectoryBuffer_init EXCEPT !.id = id]
    /\ appended = NoAppend

NextBuffer ==
    \/ \E trajectory \in [stamp : TrajStamps,
                           points : UpTo(TrajPoints, MaxPoints)],
          later \in {0, 1} : AppendTrajectory(trajectory, later)
    \/ \E pid \in DOMAIN buffer.points : DelItem(pid)
    \/ clock + 1 <= MaxTrajTime /\ Elapse(1)

SpecBuffer == InitBuffer /\ [][NextBuffer]_vars

\* ---- connecting the legs at startup -----------------------------------------
InitConnect == Construct(1) /\ NoThreads /\ NoLegs

NextConnect ==
    \/ \E discover \in BOOLEAN,
          plist \in Lists(Ports \cup {NoPort}, MaxPorts),
          wire \in [Ports -> [ln : LegNums, seed : ConnSeeds]] :
           /\ (~discover => ~missing_port(plist))
           /\ Connect(discover, plist, wire)
    \/ Tick

SpecConnect == InitConnect /\ [][NextConnect]_vars

\* ---- properties ------------------------------------------------------------
OnGround(s) == s \in {"stance", "wait"}
Airborne(s) == s \in {"lift", "swing", "lower"}
NotOnGroundCount(f) == Cardinality({l \in DOMAIN f : ~OnGround(f[l].state)})
AirborneCount(f) == Cardinality({l \in DOMAIN f : Airborne(f[l].state)})
NeighborsOf(l) == {neighbors[l][i] : i \in 1..Len(neighbors[l])} \ {l}
Max(a, b) == IF a >= b THEN a ELSE b
BodyVars == <<enabled, halted, target, pre_halt_target, feet>>

\* C1 as stated: after restriction events and the feet's own progress no two
\* ring-adjacent legs are both in a state other than stance/wait.
C1_NoAdjacentOffGround ==
    (enabled /\ last.op = "on_restriction") =>
        \A l \in Legs : \A k \in NeighborsOf(l) :
            OnGround(feet[l].state) \/ OnGround(feet[k].state)

\* C1 amended: no two ring-adjacent legs are both in lift/swing/lower, and a
\* foot is set to lift only while both its ring neighbours are in stance/wait.
C1_NoAdjacentAirborne ==
    /\ [](\A l \in Legs : \A k \in NeighborsOf(l) :
             ~(Airborne(feet[l].state) /\ Airborne(feet[k].state)))
    /\ [][\A l \in Legs :
             (feet[l].state # "lift" /\ feet'[l].state = "lift") =>
                 \A k \in NeighborsOf(l) : OnGround(feet[k].state)]_vars

\* C1 witness: in a ring of three legs a foot has just been lifted by a
\* restriction event.
C1_Witness ==
    /\ Cardinality(Legs) = 3
    /\ last.op = "on_restriction" /\ last.res = "lift"
    /\ \E l \in Legs : feet[l].state = "lift" /\ feet[l].last_lift_time = now - 1

\* C2 as stated: right after each on_restriction call of an enabled Body at
\* most max_feet_up feet are in a state other than stance/wait.
C2_NUpWithinBudget ==
    [][\A l \in Legs, r \in RVals :
          (enabled /\ FootRestriction(l, r)) =>
              NotOnGroundCount(feet') <= max_feet_up]_vars

\* C2 amended: neither an on_restriction call nor the feet's progress after
\* it raises the number of feet outside stance/wait above max_feet_up, and at
\* most max_feet_up feet are ever in lift/swing/lower.
C2_LiftWithinBudget ==
    /\ [](AirborneCount(feet) <= max_feet_up)
    /\ [][last'.op = "on_restriction" =>
             NotOnGroundCount(feet') <=
                 Max(NotOnGroundCount(feet), max_feet_up)]_vars

\* C2 witness: a restriction event has lifted a foot while another leg was
\* restricted too, and the budget is used up.
C2_Witness ==
    /\ last.op = "on_restriction" /\ last.res = "lift"
    /\ NotOnGroundCount(feet) = max_feet_up
    /\ \E l, k \in Legs :
          /\ l # k
          /\ feet[l].state = "lift"
          /\ feet[k].state = "stance" /\ feet[k].restriction > r_thresh

\* C3: a restriction above r_max on an enabled Body that is not halted halts
\* it: the target before the event is saved, the Body and every foot get the
\* zero target with update_swing false, and no foot changes state.
C3_HaltOnMax ==
    [][\A l \in Legs, r \in RVals :
          (enabled /\ ~halted /\ r > r_max /\ FootRestriction(l, r)) =>
              /\ halted'
              /\ pre_halt_target' = target
              /\ target' = ZeroTarget
              /\ last'.sent = << <<ZeroTarget, FALSE>> >>
              /\ \A i \in Legs :
                    /\ feet'[i].target = ZeroTarget
                    /\ feet'[i].update_swing = FALSE
                    /\ feet'[i].state = feet[i].state]_vars

\* C3 witness: a restriction event has halted a Body that was moving to T1.
C3_Witness ==
    /\ last.op = "on_restriction" /\ last.res = "halt"
    /\ halted /\ pre_halt_target = T1 /\ target = ZeroTarget
    /\ \E l \in Legs : feet[l].restriction > r_max

\* some foot outside swing/lower has a stored restriction above r_max
SomeFootMaxed(f) ==
    \E i \in DOMAIN f :
        f[i].state \notin {"swing", "lower"} /\ f[i].restriction > r_max

\* C4 as stated: a restriction below r_max on a halted, enabled Body unhalts
\* it exactly if no foot outside swing/lower is above r_max, and the unhalt
\* re-applies the pre-halt target to the Body and to every foot, with
\* update_swing false, and changes no foot state.
C4_UnhaltRestores ==
    [][\A l \in Legs, r \in RVals :
          (enabled /\ halted /\ r < r_max /\ FootRestriction(l, r)) =>
              IF SomeFootMaxed([feet EXCEPT ![l].restriction = r])
              THEN halted'
              ELSE /\ ~halted'
                   /\ target' = pre_halt_target
                   /\ \A i \in Legs :
                         /\ feet'[i].target = pre_halt_target
                         /\ feet'[i].update_swing = FALSE
                         /\ feet'[i].state = feet[i].state]_vars

\* C5: halt() on a halted Body changes nothing, sends nothing to the feet
\* and logs nothing; halt() twice leaves the state of halt() once.
C5_HaltIdempotent ==
    /\ [](halt(halt(Self)) = halt(Self))
    /\ [][(halted /\ Halt) =>
             /\ UNCHANGED <<BodyVars, speed_scalar>>
             /\ last'.sent = <<>>
             /\ last'.log = <<>>]_vars

\* C5 witness: halt() was called on a Body halted on the way to T1.
C5_Witness ==
    /\ last.op = "halt" /\ last.log = <<>>
    /\ halted /\ pre_halt_target = T1 /\ target = ZeroTarget

\* C6 as stated, for a Body that had a BodyTarget when it halted: the target
\* applied at unhalt is the last BodyTarget a caller passed to set_target
\* while halted or, failing that, the target in effect right before the halt.
C6_UnhaltAppliesIntended ==
    (/\ last.op = "on_restriction" /\ last.res = "unhalt" /\ ~last.raised
     /\ IsBodyTarget(intended)) =>
        target = intended

\* C7: set_target(T, update_swing) on a halted Body saves T, stays halted and
\* sends the zero target with update_swing false; otherwise it sets the
\* target to T and sends T with the caller's update_swing.
C7_SetTarget ==
    [][\A t \in CallerTargets, us \in BOOLEAN :
          (last'.op = "set_target" /\ SetTarget(t, us)) =>
              IF halted
              THEN /\ pre_halt_target' = t
                   /\ halted'
                   /\ last'.sent = << <<ZeroTarget, FALSE>> >>
                   /\ \A i \in Legs : /\ feet'[i].target = ZeroTarget
                                      /\ feet'[i].update_swing = FALSE
              ELSE /\ target' = t
                   /\ ~halted'
                   /\ last'.sent = << <<t, us>> >>
                   /\ \A i \in Legs : /\ feet'[i].target = t
                                      /\ feet'[i].update_swing = us]_vars

\* C7 witness: set_target(T2, True) was called on a halted Body.
C7_Witness ==
    /\ last.op = "set_target" /\ ~last.raised
    /\ halted /\ pre_halt_target = T2 /\ target = ZeroTarget
    /\ \A i \in Legs : feet[i].target = ZeroTarget /\ ~feet[i].update_swing

\* C8: set_target of a value that is no BodyTarget raises and changes neither
\* the target, the pre-halt target, halted nor any foot.
C8_RejectsNonTarget ==
    [][\A us \in BOOLEAN :
          (last'.op = "set_target" /\ SetTarget(NotATarget, us)) =>
              /\ last'.raised
              /\ last'.sent = <<>>
              /\ UNCHANGED BodyVars]_vars

\* C8 witness: set_target raised on a halted Body that keeps T1 saved.
C8_Witness ==
    /\ last.op = "set_target" /\ last.raised
    /\ halted /\ pre_halt_target = T1

\* C9: a disabled Body ignores a restriction event: halted, the target, the
\* pre-halt target and every foot's state and target stay as they were.
C9_DisabledIgnores ==
    [][\A l \in Legs, r \in RVals :
          (~enabled /\ last'.op = "on_restriction" /\ FootRestriction(l, r)) =>
              /\ UNCHANGED <<enabled, halted, target, pre_halt_target>>
              /\ last'.sent = <<>>
              /\ \A i \in Legs : /\ feet'[i].state = feet[i].state
                                 /\ feet'[i].target = feet[i].target]_vars

\* C9 witness: a disabled Body, not halted, got a restriction above r_max
\* from a foot in stance.
C9_Witness ==
    /\ last.op = "on_restriction" /\ last.res = "ignored"
    /\ ~enabled /\ ~halted
    /\ \E l \in Legs : feet[l].restriction > r_max /\ feet[l].state = "stance"

\* C10 as stated: A and B in stance, both between r_thresh and r_max, no foot
\* airborne, A lifted earlier than B: whichever of the two events is
\* processed, A is lifted and B stays in stance.
C10_LeastRecentlyLiftedWins ==
    [][\A A \in Legs, B \in Legs, r \in RVals :
          (/\ enabled /\ A # B
           /\ \A i \in Legs : OnGround(feet[i].state)
           /\ feet[A].state = "stance" /\ feet[B].state = "stance"
           /\ r > r_thresh /\ r < r_max
           /\ feet[A].last_lift_time < feet[B].last_lift_time) =>
              /\ (feet[A].restriction > r_thresh /\ feet[A].restriction < r_max
                  /\ FootRestriction(B, r)) => feet'[B].state = "stance"
              /\ (feet[B].restriction > r_thresh /\ feet[B].restriction < r_max
                  /\ FootRestriction(A, r)) => feet'[A].state = "lift"]_vars

\* ---- C11: the reference rule of the lift decision --------------------------
\* the Body after leg l reported restriction r
AfterReport(l, r) == on_restriction([Self EXCEPT !.feet[l].restriction = r], r, l)

\* the call reached the lift logic: it was not ignored and took neither the
\* unhalt nor the halt branch
ReachedLiftLogic(l, r) == AfterReport(l, r).res \in {"lift", "none"}

\* the eligible legs: the reporting leg and every other stance/wait leg whose
\* restriction exceeds r_thresh
RefEligible(l) ==
    {l} \cup {k \in Legs \ {l} :
                 OnGround(feet[k].state) /\ feet[k].restriction > r_thresh}
RefBudget == max_feet_up - NotOnGroundCount(feet)

\* r > r_thresh, stance, no ring neighbour off the ground, n_up < max_feet_up
RefBase(l, r) ==
    /\ r > r_thresh
    /\ feet[l].state = "stance"
    /\ \A k \in NeighborsOf(l) : OnGround(feet[k].state)
    /\ NotOnGroundCount(feet) < max_feet_up

\* l is among the first budget+1 eligible legs in every order by ascending
\* last_lift_time / in some such order (the two differ only on ties)
RefRankedSurely(l) ==
    Cardinality({k \in RefEligible(l) \ {l} :
        feet[k].last_lift_time <= feet[l].last_lift_time}) < RefBudget + 1
RefRankedPossibly(l) ==
    Cardinality({k \in RefEligible(l) \ {l} :
        feet[k].last_lift_time < feet[l].last_lift_time}) < RefBudget + 1

RefMustLift(l, r) ==
    /\ RefBase(l, r)
    /\ \/ Cardinality(RefEligible(l)) <= RefBudget
       \/ RefRankedSurely(l)
RefMayLift(l, r) ==
    /\ RefBase(l, r)
    /\ \/ Cardinality(RefEligible(l)) <= RefBudget
       \/ RefRankedPossibly(l)

\* the decision of the call agrees with the reference rule
AgreesWithRef(l, r) ==
    LET b == AfterReport(l, r)
    IN /\ RefMustLift(l, r) => (b.res = "lift" /\ b.feet[l].state = "lift")
       /\ b.res = "lift" => RefMayLift(l, r)
       /\ ~RefMayLift(l, r) => b.feet[l].state = feet[l].state

\* C11 as stated: whenever on_restriction reaches its lift logic, the
\* reporting foot is set to lift exactly if the reference rule permits it,
\* and is left unchanged otherwise.
C11_LiftEqualsReference ==
    \A l \in Legs, r \in RVals :
        ReachedLiftLogic(l, r) => AgreesWithRef(l, r)

\* C11 amended: the same for a leg that has ring neighbours (a Body of more
\* than one leg); a leg without neighbours is never lifted.
C11_LiftEqualsReferenceInRing ==
    \A l \in Legs, r \in RVals :
        ReachedLiftLogic(l, r) =>
            IF Len(neighbors[l]) = 0
            THEN AfterReport(l, r).feet[l].state = feet[l].state
            ELSE AgreesWithRef(l, r)

\* C11 witness: three legs in stance, all restricted, lifted at different
\* times, after a restriction event that lifted nothing: the ranking decides.
C11_Witness ==
    /\ enabled /\ Cardinality(Legs) = 3
    /\ last.op = "on_restriction" /\ last.res = "none"
    /\ \A l \in Legs : feet[l].state = "stance" /\ feet[l].restriction > r_thresh
    /\ \E l, k \in Legs : feet[l].last_lift_time < feet[k].last_lift_time
    /\ \E l \in Legs, r \in RVals :
          ReachedLiftLogic(l, r) /\ RefBase(l, r) /\ ~RefMayLift(l, r)
    /\ \E l \in Legs, r \in RVals :
          ReachedLiftLogic(l, r) /\ RefMustLift(l, r)

\* C12 as stated: an on_restriction call's reads and its lift do not
\* interleave with another call's: when a thread sets its foot to lift the
\* decision it read still stands, so two concurrent events never lift two
\* legs past the budget and neighbour checks.
C12_ArbitrationAtomic ==
    /\ \A t \in Threads :
          inflight[t].pc = "set_state" =>
              /\ feet[inflight[t].leg].state = "stance"
              /\ may_lift(Self, inflight[t].leg)
    /\ AirborneCount(feet) <= max_feet_up
    /\ \A l \in Legs : \A k \in NeighborsOf(l) :
          ~(Airborne(feet[l].state) /\ Airborne(feet[k].state))

\* ---- C13..C18: the leg controllers -----------------------------------------
\* the severity an estop value stands for: True is 1, None is no severity
Severity(x) == IF x.t = "NoneType" THEN -1 ELSE x.v
EstopEntries(q) == SelectSeq(q, LAMBDA e : e.name = "estop")
HasCmd(q, name) == \E k \in 1..Len(q) : q[k].cmd = name

\* the local estop went from old to new on request or report v, with the
\* events ev and the log entries lg: an event exactly on a change
EventIffChange(old, v, new, ev, lg) ==
    IF Severity(old) # Severity(v)
    THEN new = v /\ ev = <<Event("estop", v)>>
    ELSE new = old /\ ev = <<>> /\ EstopEntries(lg) = <<>>

\* C13: a set_estop call of the host or an estop report of the
\* microcontroller emits the 'estop' event with the new severity exactly if
\* the severity changes; otherwise it emits nothing and changes nothing.
C13_EstopEventOnChange ==
    [][/\ \A i \in DOMAIN legs, v \in EstopLevels :
             SetEstop(i, v) =>
                 EventIffChange(legs[i].estop, v, legs'[i].estop,
                                call'.events, call'.log)
       /\ \A i \in DOMAIN legs, rx \in Streams, err \in BOOLEAN :
             (Len(rx) = 1 /\ Update(i, rx, err)) =>
                 EventIffChange(legs[i].estop, rx[1], legs'[i].estop,
                                call'.events, call'.log)]_vars

\* C13 witness: a serial leg received a hold report that changed its estop
\* and emitted the event.
C13_Witness ==
    /\ call.op = "update" /\ call.rx = <<Sev(ESTOP_HOLD)>>
    /\ call.events = <<Event("estop", Sev(ESTOP_HOLD))>>
    /\ legs[call.leg].estop = Sev(ESTOP_HOLD)

\* C14: set_estop(level) of a serial leg sends the estop command with level,
\* also when level is the current estop, and leaves estop = level; an estop
\* report updates estop and sends no estop command.
C14_SetEstopTransmits ==
    [][/\ \A i \in DOMAIN legs, v \in EstopLevels :
             (legs[i].kind = "Teensy" /\ SetEstop(i, v)) =>
                 /\ call'.tx = <<Cmd("estop", v)>>
                 /\ legs'[i].estop = v
       /\ \A i \in DOMAIN legs, rx \in Streams, err \in BOOLEAN :
             Update(i, rx, err) =>
                 /\ ~HasCmd(call'.tx, "estop")
                 /\ rx # <<>> => legs'[i].estop = rx[Len(rx)]]_vars

\* C14 witness: set_estop with the current level was sent to the
\* microcontroller and emitted no event.
C14_Witness ==
    /\ call.op = "set_estop" /\ legs[call.leg].kind = "Teensy"
    /\ call.events = <<>>
    /\ call.tx = <<Cmd("estop", call.value)>>
    /\ legs[call.leg].estop = call.value

\* C15 as stated: an update() called more than HEARTBEAT_PERIOD after the
\* last heartbeat sends a heartbeat and resets last_heartbeat, whatever the
\* stream processing of the call did.
C15_HeartbeatWhenDue ==
    [][\A i \in DOMAIN legs, rx \in Streams, err \in BOOLEAN :
          (clock - legs[i].last_heartbeat > HEARTBEAT_PERIOD
           /\ Update(i, rx, err)) =>
              /\ HasCmd(call'.tx, "heartbeat")
              /\ legs'[i].last_heartbeat = clock]_vars

\* C16: an update() whose stream processing raises logs the error and raises
\* it to the caller.
C16_StreamErrorReraised ==
    [][\A i \in DOMAIN legs, rx \in Streams :
          Update(i, rx, TRUE) =>
              /\ call'.raised = "Exception"
              /\ \E k \in 1..Len(call'.log) : call'.log[k].name = "error"]_vars

\* C16 witness: an update() that handled an estop report and then hit a bad
\* frame has raised.
C16_Witness ==
    /\ call.op = "update" /\ call.err /\ call.rx # <<>>
    /\ call.raised = "Exception"
    /\ call.events # <<>>

\* C17: once PLAN_TICK is set no construction changes it, and a serial leg
\* whose tick time is more than 1e-9 away from it fails with ValueError.
C17_PlanTickSetOnce ==
    [][/\ PLAN_TICK # NoTick => PLAN_TICK' = PLAN_TICK
       /\ \A seed \in SeedTimes :
             (PLAN_TICK # NoTick /\ Abs(seed - PLAN_TICK) > EPS
              /\ NewTeensy(seed)) =>
                 call'.raised = "ValueError" /\ legs' = legs]_vars

\* C17 witness: after a first leg set PLAN_TICK, a serial leg reporting
\* another tick time failed with ValueError.
C17_Witness ==
    /\ Len(legs) = 1 /\ call.op = "Teensy" /\ call.leg = 2
    /\ call.raised = "ValueError"
    /\ PLAN_TICK # NoTick /\ Abs(call.seed - PLAN_TICK) > EPS

\* C18 as stated: the first serial leg, reporting tick time s while PLAN_TICK
\* is unset, makes PLAN_TICK exactly s and is constructed.
C18_FirstLegSetsTick ==
    [][\A seed \in SeedTimes :
          (PLAN_TICK = NoTick /\ NewTeensy(seed)) =>
              PLAN_TICK' = seed /\ call'.raised = "no"]_vars

\* ---- C19, C20: connect_to_teensies -------------------------------------------
\* C19: connect_to_teensies returns a dict in which every controller it made
\* is the one value of its own leg number, or it raises and returns nothing;
\* it raises when two controllers report the same leg number.
C19_OneControllerPerLeg ==
    [][call'.op = "connect" =>
          /\ IF call'.raised = "no"
             THEN /\ \A ln \in DOMAIN call'.ret :
                        legs'[call'.ret[ln]].leg_number = ln
                  /\ \A k \in 1..Len(legs') :
                        /\ legs'[k].leg_number \in DOMAIN call'.ret
                        /\ call'.ret[legs'[k].leg_number] = k
             ELSE call'.ret = <<>>
          /\ (\E j, k \in 1..Len(legs') :
                 j # k /\ legs'[j].leg_number = legs'[k].leg_number) =>
                     call'.raised # "no"]_vars

\* C19 witness: two serial legs that report the same leg number were
\* connected and the call raised.
C19_Witness ==
    /\ call.op = "connect" /\ call.raised = "Exception"
    /\ Len(legs) = 2 /\ legs[1].leg_number = legs[2].leg_number
    /\ call.ret = <<>>

\* C20: with no ports (given or discovered) connect_to_teensies returns six
\* simulated legs under the keys 1..6 and opens no port; a discovered teensy
\* without a port makes it raise IOError before any controller is made.
C20_SimulatedFallback ==
    [][call'.op = "connect" =>
          /\ call'.ports = <<>> =>
                /\ call'.raised = "no"
                /\ call'.opened = <<>>
                /\ DOMAIN call'.ret = 1..6
                /\ Len(legs') = 6
                /\ \A ln \in 1..6 :
                      /\ legs'[call'.ret[ln]].kind = "FakeTeensy"
                      /\ legs'[call'.ret[ln]].leg_number = ln
          /\ (call'.discover /\ missing_port(call'.ports)) =>
                /\ call'.raised = "IOError"
                /\ legs' = <<>>
                /\ call'.opened = <<>>]_vars

\* C20 witness: six simulated legs were returned for a given empty list.
C20_Witness ==
    /\ call.op = "connect" /\ ~call.discover /\ call.ports = <<>>
    /\ call.raised = "no" /\ Len(legs) = 6
    /\ PLAN_TICK = FAKE_TICK

\* ---- C28: telemetry of the serial leg -----------------------------------------
Reports(rx) == SelectSeq(rx, IsReport)
TelemetryEvents(ev) == SelectSeq(ev, LAMBDA e : e.name \in TeleKinds)
LastOf(rx, kind) ==
    LET idx == {k \in 1..Len(rx) : rx[k].report = kind}
    IN CHOOSE k \in idx : \A j \in idx : j <= k

\* C28: an update() of a serial leg emits, for the report frames it received
\* and in their order, one event each that is named after the frame's kind
\* and carries its values stamped with the receive time; afterwards each
\* snapshot holds the last frame of its kind, or is unchanged if there was none.
C28_TelemetryOverwritten ==
    [][(call'.op = "update" /\ Update(call'.leg, call'.rx, call'.err)) =>
              LET i == call'.leg
                  rep == Reports(call'.rx)
                  ev == TelemetryEvents(call'.events)
              IN /\ Len(ev) = Len(rep)
                 /\ \A k \in 1..Len(rep) :
                       ev[k] = Event(rep[k].report, Snap(rep[k].vals, clock))
                 /\ \A kind \in TeleKinds :
                       legs'[i][kind] =
                           IF \E k \in 1..Len(rep) : rep[k].report = kind
                           THEN Snap(rep[LastOf(rep, kind)].vals, clock)
                           ELSE legs[i][kind]]_vars

\* C28 witness: a snapshot that held an earlier frame was overwritten by an
\* update() that received two adc frames, and holds the second.
C28_Witness ==
    /\ call.op = "update" /\ Len(call.rx) = 2
    /\ call.rx[1] = Report("adc", <<5, 6, 7, 8>>)
    /\ call.rx[2] = Report("adc", <<1, 2, 3, 4>>)
    /\ Len(TelemetryEvents(call.events)) = 2
    /\ legs[call.leg].adc = Snap(<<1, 2, 3, 4>>, clock)
    /\ clock > 0

\* ---- C29, C30: the ring and the foot states ------------------------------------
\* predecessor and successor of leg n among the sorted leg ids, wrapping around
Pred(n) ==
    LET below == {m \in Legs : m < n}
        from == IF below = {} THEN Legs ELSE below
    IN CHOOSE m \in from : \A k \in from : k <= m
Succ(n) ==
    LET above == {m \in Legs : m > n}
        from == IF above = {} THEN Legs ELSE above
    IN CHOOSE m \in from : \A k \in from : m <= k
Adjacent(a, b) == \E k \in 1..Len(neighbors[a]) : neighbors[a][k] = b

\* C29: for two or more legs neighbors maps every leg to its predecessor and
\* successor in sorted order with wrap-around, two entries per leg, adjacency
\* is symmetric, and no operation of the Body changes neighbors.
C29_NeighborsRing ==
    /\ [](Cardinality(Legs) >= 2 =>
             /\ DOMAIN neighbors = Legs
             /\ \A n \in Legs :
                   /\ Len(neighbors[n]) = 2
                   /\ neighbors[n] = <<Pred(n), Succ(n)>>
             /\ \A a, b \in Legs : Adjacent(a, b) <=> Adjacent(b, a))
    /\ [][neighbors' = neighbors]_vars

\* C29 witness: in the Body of legs 1, 3 and 4 leg 1 has the neighbours 4 and
\* 3, and a restriction event has lifted a foot.
C29_Witness ==
    /\ Legs = {1, 3, 4}
    /\ neighbors[1] = <<4, 3>> /\ neighbors[4] = <<3, 1>>
    /\ last.op = "on_restriction" /\ last.res = "lift"

FootStates == {"stance", "wait", "lift", "swing", "lower"}

\* C30 as stated: in every reachable state of a Body every foot's state is
\* one of stance, wait, lift, swing, lower.
C30_FootStateValid == \A l \in Legs : feet[l].state \in FootStates

\* C30 amended: every foot's state is one of stance, wait, lift, swing, lower
\* or None; it is None right after construction and after disable().
C30_FootStateOrNone ==
    /\ \A l \in Legs : feet[l].state = None
    /\ [](\A l \in Legs : feet[l].state \in FootStates \cup {None})
    /\ [][(last'.op = "disable" /\ Disable) =>
             \A l \in Legs : feet'[l].state = None]_vars

\* C30 witness: disable() has put the feet of a Body that had lifted a foot
\* back to None.
C30_Witness ==
    /\ last.op = "disable" /\ ~enabled
    /\ \A l \in Legs : feet[l].state = None
    /\ \E l \in Legs : feet[l].last_lift_time > 0

\* ---- C21..C25: the simulated leg ---------------------------------------------
Pos(c) == <<c.xyz.x, c.xyz.y, c.xyz.z>>
\* the step taken is an update() of the simulated leg
SimStep == call'.op = "update" /\ SimUpdate(call'.leg, call'.value.xyzn)
\* the step taken is a send_plan of a leg
PlanSent == call'.op = "send_plan" /\ SendPlan(call'.leg, call'.value)
\* the leg before and after the step, and the time since its last simulation step
Before == legs[call'.leg]
After == legs'[call'.leg]
Dt == clock - Before.last_update
\* the update() is a tick of the simulation
SimTick == SimStep /\ Dt > STEP_MIN
EstopSet(c) == c.estop # Sev(ESTOP_OFF)

\* C21 as stated: a tick with no plan active or with estop set leaves the
\* position as it was and stamps the telemetry with the time of the tick.
C21_StillWhenIdle ==
    [][(SimTick /\ (Before.plan = NoPlan \/ EstopSet(Before))) =>
          /\ Pos(After) = Pos(Before)
          /\ After.xyz.time = clock /\ After.angles.time = clock]_vars

\* the position of the tick before the limits are applied, and its angles
Unclamped == LET st == plan_step(Before, Dt, PLAN_TICK).pos
             IN IF Before.position_noise # 0
                THEN [k \in 1..3 |-> st[k] + call'.value.xyzn[k]] ELSE st
Requested == point_to_angles(Unclamped[1], Unclamped[2], Unclamped[3])
\* the limits of the hip, thigh and knee of leg ln
Limits(ln) ==
    << IF ln \in {2, 5}
       THEN <<HIP_MIDDLE_MIN_ANGLE, HIP_MIDDLE_MAX_ANGLE>>
       ELSE <<HIP_MIN_ANGLE, HIP_MAX_ANGLE>>,
       <<THIGH_MIN_ANGLE, THIGH_MAX_ANGLE>>,
       <<KNEE_MIN_ANGLE, KNEE_MAX_ANGLE>> >>
Within(ln, a) ==
    \A j \in 1..3 : Limits(ln)[j][1] <= a[j] /\ a[j] <= Limits(ln)[j][2]
Angles(c) == <<c.angles.hip, c.angles.thigh, c.angles.knee>>

\* C22 as stated: a tick with a plan whose angles leave a limit clamps each
\* offending angle, recomputes xyz from the clamped angles, leaves estop at
\* HOLD and emits the 'estop' event with HOLD before the telemetry events; a
\* tick whose angles are within the limits does not change estop.
C22_ClampRaisesHold ==
    [][(SimTick /\ Before.plan # NoPlan) =>
          IF Within(Before.leg_number, Requested)
          THEN After.estop = Before.estop
          ELSE /\ \A j \in 1..3 :
                     LET lim == Limits(Before.leg_number)[j]
                     IN Angles(After)[j] =
                            IF Requested[j] < lim[1] THEN lim[1]
                            ELSE IF Requested[j] > lim[2] THEN lim[2]
                            ELSE Requested[j]
               /\ Pos(After) = angles_to_points(After.angles.hip,
                                   After.angles.thigh, After.angles.knee)
               /\ After.estop = Sev(ESTOP_HOLD)
               /\ call'.events[1] = Event("estop", Sev(ESTOP_HOLD))
               /\ Len(call'.events) = 6]_vars

\* a tick in target mode with the jitter disabled and estop off
TargetTick ==
    /\ SimTick /\ Before.plan # NoPlan
    /\ Before.plan.mode = PLAN_TARGET_MODE
    /\ Before.plan.frame = PLAN_LEG_FRAME
    /\ Before.position_noise = 0 /\ Before.estop = Sev(ESTOP_OFF)
DistSq(a, b) ==
    (a[1] - b[1]) * (a[1] - b[1]) + (a[2] - b[2]) * (a[2] - b[2])
        + (a[3] - b[3]) * (a[3] - b[3])
\* where the target rule takes the position p on a tick that covers sd:
\* onto the target tg when less than sd or FLOOR is left, else sd toward it
TargetNext(p, tg, sd) ==
    LET d == Norm([k \in 1..3 |-> tg[k] - p[k]])
    IN IF d < sd \/ d < FLOOR THEN tg
       ELSE [k \in 1..3 |-> p[k] + ((tg[k] - p[k]) * sd) \div d]
Expected == TargetNext(Pos(Before), Before.plan.linear, Before.plan.speed * Dt)

\* C23 as stated: such a tick moves the position by speed*dt toward the
\* target, or onto the target when less than speed*dt or 0.01 is left, and
\* never increases the distance to the target.
C23_TargetStep ==
    [][TargetTick =>
          /\ Pos(After) = Expected
          /\ DistSq(Pos(After), Before.plan.linear)
                <= DistSq(Pos(Before), Before.plan.linear)]_vars

\* C23 amended: the same, for the ticks whose new position is within the
\* joint limits of the leg.
C23_TargetStepInLimits ==
    [][(TargetTick /\ Within(Before.leg_number,
                        point_to_angles(Expected[1], Expected[2], Expected[3])))
          => /\ Pos(After) = Expected
             /\ DistSq(Pos(After), Before.plan.linear)
                   <= DistSq(Pos(Before), Before.plan.linear)]_vars

\* C23 witness: a tick has moved the leg by speed*dt toward a target that is
\* farther away, and the next one will reach it.
C23_Witness ==
    /\ call.op = "update" /\ call.events # <<>>
    /\ legs[1].plan # NoPlan /\ legs[1].plan.mode = PLAN_TARGET_MODE
    /\ legs[1].position_noise = 0 /\ legs[1].estop = Sev(ESTOP_OFF)
    /\ legs[1].xyz.y = SimStart[2] + 4 * (STEP_MIN + 1)
    /\ legs[1].plan.linear[2] = SimStart[2] + 40

\* the whole ticks of PLAN_TICK in the accumulated time, in half milliseconds
PlanTicks(ddt) == ddt \div (PLAN_TICK \div HalfMs)
Remainder(ddt) == ddt % (PLAN_TICK \div HalfMs)
MatrixTick ==
    /\ SimTick /\ Before.plan # NoPlan
    /\ Before.plan.mode = PLAN_MATRIX_MODE
    /\ Before.plan.frame = PLAN_LEG_FRAME
    /\ Before.estop = Sev(ESTOP_OFF)

\* every tick in matrix mode applies the transform once per whole PLAN_TICK
\* of the carry and the elapsed time and keeps the remainder
MatrixRate ==
    MatrixTick =>
        /\ After.ddt = Remainder(Before.ddt + Dt * TimeUnit)
        /\ After.ddt >= 0 /\ After.ddt < PLAN_TICK \div HalfMs
        /\ (Before.position_noise = 0
            /\ Within(Before.leg_number, Requested)) =>
               Pos(After) = ApplyN(Before.plan.matrix, Pos(Before),
                                   PlanTicks(Before.ddt + Dt * TimeUnit))

\* C24 as stated: the ticks of a matrix plan apply its transform once per
\* whole PLAN_TICK elapsed, the remainder is carried and stays below
\* PLAN_TICK, and a newly dispatched matrix plan starts with no carry.
C24_MatrixTickRate ==
    [][/\ MatrixRate
       /\ (PlanSent /\ call'.raised = "no"
           /\ After.plan.mode = PLAN_MATRIX_MODE) => After.ddt = 0]_vars

\* C24 amended: the same, except that dispatching a plan leaves the carry
\* as it is: a new matrix plan starts with the remainder of the matrix ticks
\* before it.
C24_MatrixCarryKept ==
    [][/\ MatrixRate
       /\ (PlanSent /\ Before.kind = "FakeTeensy") =>
             After.ddt = Before.ddt]_vars

\* C24 witness: the first tick of a matrix plan, 112.5 ms long, applied the
\* transform four times, and a matrix plan dispatched after it starts with
\* the 12.5 ms that were left.
C24_Witness ==
    /\ call.op = "send_plan" /\ call.raised = "no"
    /\ legs[1].plan # NoPlan /\ legs[1].plan.mode = PLAN_MATRIX_MODE
    /\ legs[1].estop = Sev(ESTOP_OFF) /\ legs[1].position_noise = 0
    /\ legs[1].xyz.x = SimStart[1] + 4
    /\ legs[1].ddt = TimeUnit

\* the telemetry events among the events of a call, by name
TelemetryNames(ev) ==
    LET tel == SelectSeq(ev, LAMBDA e : e.name \in TeleKinds)
    IN [k \in 1..Len(tel) |-> tel[k].name]

\* what a step and what an update() without a step do
StepEffects ==
    /\ TelemetryNames(call'.events) = <<"adc", "pwm", "pid", "angles", "xyz">>
    /\ \A k \in 1..Len(call'.events) :
          call'.events[k].name \in TeleKinds =>
              /\ call'.events[k].value = After[call'.events[k].name]
              /\ call'.events[k].value.time = clock
    /\ After.last_update = clock
NoStepEffects == call'.events = <<>> /\ legs' = legs

\* C25 as stated: update() steps exactly if at least 100 ms have passed since
\* the last step; a step emits adc, pwm, pid, angles, xyz once each in this
\* order and records the time; an update() that does not step emits nothing
\* and changes nothing.
C25_StepsFrom100ms ==
    [][SimStep => IF Dt >= STEP_MIN THEN StepEffects ELSE NoStepEffects]_vars

\* C25 amended: the same with a step exactly if more than 100 ms have passed.
C25_StepsAfter100ms ==
    [][SimStep => IF Dt > STEP_MIN THEN StepEffects ELSE NoStepEffects]_vars

\* C25 witness: an update() exactly 100 ms after the last step did nothing,
\* after an earlier one had stepped.
C25_Witness ==
    /\ call.op = "update" /\ call.events = <<>>
    /\ clock - legs[1].last_update = STEP_MIN
    /\ legs[1].last_update > 0

\* ---- C26, C27: dispatching plans -----------------------------------------------
\* the length of the packed tuple of each mode
PackedLen(m) ==
    CASE m = PLAN_STOP_MODE -> 3
      [] m = PLAN_TARGET_MODE -> 6
      [] m = PLAN_VELOCITY_MODE -> 6
      [] m = PLAN_ARC_MODE -> 9
      [] m = PLAN_MATRIX_MODE -> 15

\* C26: send_plan of a plan in the leg frame on a simulated leg stores a plan
\* with the same mode, frame, speed and the fields of the mode, and the packed
\* tuple is 3, 6, 6, 9, 15 long for Stop, Target, Velocity, Arc, Matrix.
C26_PlanRoundTrip ==
    [][(PlanSent /\ Before.kind = "FakeTeensy" /\ call'.value.n # 0
        /\ call'.value.plan.frame = PLAN_LEG_FRAME) =>
          LET pl == call'.value.plan
              st == After.plan
              m == pl.mode
          IN /\ call'.raised = "no"
             /\ st # NoPlan
             /\ st.mode = m /\ st.frame = pl.frame /\ st.speed = pl.speed
             /\ m \in {PLAN_TARGET_MODE, PLAN_VELOCITY_MODE, PLAN_ARC_MODE}
                   => st.linear = pl.linear
             /\ m = PLAN_ARC_MODE => st.angular = pl.angular
             /\ m = PLAN_MATRIX_MODE => st.matrix = pl.matrix
             /\ Len(call'.events) = 1
             /\ Len(call'.events[1].value.pp) = PackedLen(m)]_vars

\* C26 witness: a simulated leg holds an arc plan it was sent, with both its
\* centre and its axis.
C26_Witness ==
    /\ call.op = "send_plan" /\ call.raised = "no"
    /\ legs[call.leg].kind = "FakeTeensy"
    /\ legs[call.leg].plan # NoPlan
    /\ legs[call.leg].plan.mode = PLAN_ARC_MODE
    /\ legs[call.leg].plan.linear = <<1, 2, 3>>
    /\ legs[call.leg].plan.angular = <<0, 0, 1>>
    /\ Len(call.events[1].value.pp) = 9

StopTuple(ln) == Packed(packed(plans_stop, ln))
\* C27: stop() triggers exactly one 'plan' event with the packed Stop plan
\* and, on a serial leg, transmits that plan once after the event; send_plan()
\* without arguments dispatches what stop() dispatches.
C27_StopIsAPlan ==
    [][/\ (call'.op = "stop" /\ StopLeg(call'.leg)) =>
             /\ call'.events = <<Event("plan", StopTuple(Before.leg_number))>>
             /\ IF Before.kind = "Teensy"
                THEN /\ call'.tx = <<Cmd("plan", StopTuple(Before.leg_number))>>
                     /\ call'.trace = <<Triggered("plan"), Sent("plan")>>
                ELSE /\ call'.tx = <<>>
                     /\ After.plan = plans_stop
       /\ (PlanSent /\ call'.value = NoArgs) =>
             /\ call'.events = stop(Obj(Before)).events
             /\ call'.tx = stop(Obj(Before)).tx
             /\ call'.trace = stop(Obj(Before)).trace
             /\ After = Attrs(stop(Obj(Before)))]_vars

\* C27 witness: stop() on a serial leg has sent the Stop plan after its event.
C27_Witness ==
    /\ call.op = "stop"
    /\ legs[call.leg].kind = "Teensy"
    /\ call.trace = <<Triggered("plan"), Sent("plan")>>
    /\ call.tx = <<Cmd("plan", Packed(<<PLAN_STOP_MODE, PLAN_LEG_FRAME, 0>>))>>

\* ---- C31: the order of the construction of a serial leg -----------------------
\* the place of the step e in the trace tr, 0 if it is not there
At(tr, e) ==
    IF \E k \in 1..Len(tr) : tr[k] = e
    THEN CHOOSE k \in 1..Len(tr) : tr[k] = e /\ \A j \in 1..(k - 1) : tr[j] # e
    ELSE 0
\* the estop commands among the commands sent
EstopCmds(tx) == SelectSeq(tx, LAMBDA c : c.cmd = "estop")

\* C31: Teensy(port) asks the leg number, replays the calibration writes of
\* the leg, registers the estop handler, sends estop with the default
\* severity (hard), asks the tick time and checks it, sends the first
\* heartbeat and registers the report handlers, in this order; when the
\* check fails no heartbeat was sent and the last estop commanded is hard;
\* on success the local estop is hard.
C31_ConstructionOrder ==
    [][(call'.op = "Teensy" /\ NewTeensy(call'.seed)) =>
          LET tr == call'.trace
              cal == calibration_setup(call'.leg)
              on == At(tr, Registered("estop"))
              es == At(tr, Sent("estop"))
              qt == At(tr, Sent("pid_seed_time"))
              hb == At(tr, Sent("heartbeat"))
          IN /\ tr[1] = Sent("leg_number")
             /\ \A k \in 1..Len(cal) :
                   /\ At(tr, Sent(cal[k])) > 1 /\ At(tr, Sent(cal[k])) < on
                   /\ \A j \in 1..(k - 1) :
                         At(tr, Sent(cal[j])) < At(tr, Sent(cal[k]))
             /\ 1 < on /\ on < es /\ es < qt
             /\ EstopCmds(call'.tx) = <<Cmd("estop", Sev(ESTOP_HARD))>>
             /\ IF call'.raised # "no"
                THEN hb = 0 /\ qt = Len(tr) /\ legs' = legs
                ELSE /\ qt < hb
                     /\ \A k \in 1..Len(ReportHandlers) :
                           hb < At(tr, ReportHandlers[k])
                     /\ legs'[call'.leg].estop = Sev(ESTOP_HARD)]_vars

\* C31 witness: the construction of leg 1 failed at the tick check after its
\* calibration writes and the estop command.
C31_Witness ==
    /\ call.op = "Teensy" /\ call.raised = "ValueError" /\ call.leg = 1
    /\ At(call.trace, Sent("set_calf_scale")) = 2
    /\ At(call.trace, Sent("heartbeat")) = 0
    /\ call.tx = <<Cmd("estop", Sev(ESTOP_HARD))>>

\* ---- C32, C33: what on_restriction does to the feet ---------------------------
\* C32: on_restriction changes the state of no foot but the reporting one,
\* and that only from 'stance' to 'lift'.
C32_OnlyReporterLifts ==
    [][last'.op = "on_restriction" =>
          \A l \in Legs, r \in RVals :
              (feet'[l].restriction = r /\ FootRestriction(l, r)) =>
                  \A k \in Legs :
                      feet'[k].state # feet[k].state =>
                          /\ k = l
                          /\ feet[k].state = "stance"
                          /\ feet'[k].state = "lift"]_vars

\* C32 witness: a report lifted one foot of a Body whose other foot waits
\* with a restriction above r_thresh.
C32_Witness ==
    /\ last.op = "on_restriction" /\ last.res = "lift"
    /\ \E l \in Legs, k \in Legs :
          /\ feet[l].state = "lift"
          /\ feet[k].state = "wait" /\ feet[k].restriction > r_thresh

\* C33: on a halted Body an event that does not unhalt it (r >= r_max, or a
\* foot outside swing/lower above r_max) still lifts a reporting foot in
\* stance with r > r_thresh that passes the budget, neighbour and ranking
\* checks, and the Body stays halted.
C33_LiftWhileHalted ==
    [][last'.op = "on_restriction" =>
          \A l \in Legs, r \in RVals :
              (/\ enabled /\ halted
               /\ r >= r_max \/ SomeFootMaxed([feet EXCEPT ![l].restriction = r])
               /\ feet'[l].restriction = r
               /\ RefMustLift(l, r)
               /\ FootRestriction(l, r)) =>
                  /\ feet'[l].state = "lift"
                  /\ halted']_vars

\* C33 witness: a halted Body has lifted a foot.
C33_Witness ==
    /\ last.op = "on_restriction" /\ last.res = "lift"
    /\ enabled /\ halted
    /\ \E l \in Legs : feet[l].state = "lift" /\ feet[l].restriction >= r_max

\* ---- C34: enable and disable -------------------------------------------------
\* C34: enable(foot_states) sets enabled and clears halted and changes
\* nothing else, whatever foot_states is: the feet, the target and the saved
\* pre-halt target stay; disable() clears enabled, sets every foot's state to
\* None and leaves halted and the targets.
C34_EnableDisableFrame ==
    [][/\ last'.op = "enable" =>
             \A fs \in FootStateArgs :
                 Enable(fs) =>
                     /\ enabled' /\ ~halted'
                     /\ UNCHANGED <<feet, target, pre_halt_target,
                                    speed_scalar>>
                     /\ last'.sent = <<>>
       /\ (last'.op = "disable" /\ Disable) =>
             /\ ~enabled'
             /\ \A i \in Legs :
                   /\ feet'[i].state = None
                   /\ feet'[i].target = feet[i].target
             /\ UNCHANGED <<halted, target, pre_halt_target, speed_scalar>>
             /\ last'.sent = <<>>]_vars

\* C34 witness: enable() on a Body halted on the way to T1 left the zero
\* target in effect and T1 saved.
C34_Witness ==
    /\ last.op = "enable" /\ enabled /\ ~halted
    /\ target = ZeroTarget /\ pre_halt_target = T1
    /\ \A i \in Legs : feet[i].target = ZeroTarget

\* ---- C35: set_speed ------------------------------------------------------------
\* C35: set_speed(s) stores s as the speed scalar and then re-applies the
\* target of the Body through set_target; with no target ever set it raises
\* with the speed scalar already s and sends no target to the feet.
C35_SetSpeedStoresFirst ==
    [][last'.op = "set_speed" =>
          \A s \in SpeedScalars :
              SetSpeed(s) =>
                  /\ speed_scalar' = s
                  /\ IF target = NoneTarget
                     THEN /\ last'.raised
                          /\ last'.sent = <<>>
                          /\ UNCHANGED BodyVars
                     ELSE /\ ~last'.raised
                          /\ last'.sent = << <<target, ~halted>> >>
                          /\ target' = target
                          /\ \A i \in Legs : feet'[i].target = target]_vars

\* C35 witness: set_speed(2) raised on a Body that never got a target and
\* has the speed scalar 2.
C35_Witness ==
    /\ last.op = "set_speed" /\ last.raised
    /\ target = NoneTarget /\ speed_scalar = 2
    /\ \A i \in Legs : feet[i].target = NoneTarget

\* ---- C36: unhalt with no target saved -----------------------------------------
\* C36: a halt taken before any target was set saves None as the pre-halt
\* target; the restriction event that then meets the unhalt condition raises
\* from set_target with halted already false, and the zero-motion target
\* stays the target of the Body and of every foot.
C36_UnhaltWithoutTarget ==
    [][last'.op \in {"halt", "on_restriction"} =>
          /\ (~halted /\ halted' /\ target = NoneTarget) =>
                 (pre_halt_target' = NoneTarget /\ target' = ZeroTarget)
          /\ \A l \in Legs, r \in RVals :
                (/\ enabled /\ halted /\ pre_halt_target = NoneTarget
                 /\ r < r_max
                 /\ feet'[l].restriction = r
                 /\ FootRestriction(l, r)
                 /\ ~SomeFootMaxed([feet EXCEPT ![l].restriction = r])) =>
                    /\ last'.raised
                    /\ ~halted'
                    /\ last'.sent = <<>>
                    /\ target = ZeroTarget /\ target' = ZeroTarget
                    /\ pre_halt_target' = NoneTarget
                    /\ \A i \in Legs : feet'[i].target = ZeroTarget]_vars

\* C36 witness: a restriction event raised on its unhalt and left the Body
\* not halted, at the zero-motion target, with None as the pre-halt target.
C36_Witness ==
    /\ last.op = "on_restriction" /\ last.res = "unhalt" /\ last.raised
    /\ enabled /\ ~halted
    /\ target = ZeroTarget /\ pre_halt_target = NoneTarget
    /\ \A i \in Legs : feet[i].target = ZeroTarget

\* ---- C37: the ranking and the least recently lifted leg -----------------------
\* the other eligible legs of an event of leg l: on the ground and above r_thresh
OthersEligible(l) == RefEligible(l) \ {l}

\* the budget and neighbour checks for leg l
ChecksPass(l) ==
    /\ NotOnGroundCount(feet) < max_feet_up
    /\ \A k \in NeighborsOf(l) : OnGround(feet[k].state)

\* the case of the first half of C37: leg l in stance reports r
OldestReports(l, r) ==
    /\ enabled
    /\ feet[l].state = "stance"
    /\ r > r_thresh /\ r <= r_max
    /\ ChecksPass(l)
    /\ \A k \in OthersEligible(l) :
          feet[l].last_lift_time < feet[k].last_lift_time

\* an eligible leg in stance that passes the budget and neighbour checks
ReadyInStance(l) ==
    /\ feet[l].state = "stance"
    /\ feet[l].restriction > r_thresh
    /\ ChecksPass(l)

\* some event of some leg would set its foot to lift
SomeEventLifts == \E l \in Legs, r \in RVals : AfterReport(l, r).res = "lift"

\* the event of leg l with r takes the unhalt branch
Unhalts(l, r) ==
    halted /\ r < r_max /\ ~SomeFootMaxed([feet EXCEPT ![l].restriction = r])

\* the eligible legs in wait whose last lift was not later than that of leg l
WaitingAhead(l) ==
    {k \in OthersEligible(l) :
        /\ feet[k].state = "wait"
        /\ feet[k].last_lift_time <= feet[l].last_lift_time}

\* C37 as stated: on an enabled Body the event of a stance leg with
\* r_thresh < r <= r_max that passes the budget and neighbour checks and was
\* lifted strictly before every other eligible leg sets it to lift; and
\* whenever some eligible stance leg passes the budget and neighbour checks,
\* some leg's event can lift.
C37_NeverDefersOldest ==
    /\ [][last'.op = "on_restriction" =>
             \A l \in Legs, r \in RVals :
                 (OldestReports(l, r) /\ feet'[l].restriction = r
                    /\ FootReports(l, r)) =>
                     feet'[l].state = "lift"]_vars
    /\ []((enabled /\ \E l \in Legs : ReadyInStance(l)) => SomeEventLifts)

\* C37, amended: the same for a leg with ring neighbours whose event does not
\* unhalt the Body; and some leg's event can lift whenever an eligible stance
\* leg passes the checks with at most budget eligible legs in wait lifted no
\* later than it.
C37_OldestStanceLifts ==
    /\ [][last'.op = "on_restriction" =>
             \A l \in Legs, r \in RVals :
                 (/\ OldestReports(l, r) /\ ~Unhalts(l, r)
                  /\ NeighborsOf(l) # {}
                  /\ feet'[l].restriction = r
                  /\ FootReports(l, r)) =>
                     feet'[l].state = "lift"]_vars
    /\ []((enabled /\ \E l \in Legs :
                          /\ ReadyInStance(l)
                          /\ NeighborsOf(l) # {}
                          /\ Cardinality(WaitingAhead(l)) <= RefBudget)
            => SomeEventLifts)

\* C37 witness: a leg that never lifted before was set to lift by its event
\* while the two other legs, both lifted earlier, were eligible.
C37_Witness ==
    \E l \in Legs :
        /\ last.op = "on_restriction" /\ last.res = "lift"
        /\ feet[l].state = "lift" /\ feet[l].last_lift_time = 3
        /\ \A k \in Legs \ {l} :
              /\ OnGround(feet[k].state)
              /\ feet[k].restriction > r_thresh
              /\ feet[k].last_lift_time \in {1, 2}

\* ---- C38: heartbeats of a leg updated on time ---------------------------------
\* C38: with update() called without stream errors at most HEARTBEAT_PERIOD
\* after the construction and after the previous call, a heartbeat follows the
\* previous one within HEARTBEAT_TIMEOUT, and the leg is never silent for
\* longer than that.
C38_HeartbeatsInTime ==
    /\ [][call'.op = "update" =>
             \A i \in DOMAIN legs :
                 (call'.leg = i /\ HasCmd(call'.tx, "heartbeat")) =>
                     /\ legs'[i].last_heartbeat = clock'
                     /\ clock' - legs[i].last_heartbeat <= HEARTBEAT_TIMEOUT]_vars
    /\ [](\A i \in DOMAIN legs :
              clock - legs[i].last_heartbeat <= HEARTBEAT_TIMEOUT)

\* C38 witness: an update() sent a heartbeat exactly HEARTBEAT_TIMEOUT after
\* the one of the construction.
C38_Witness ==
    /\ call.op = "update" /\ HasCmd(call.tx, "heartbeat")
    /\ clock = HEARTBEAT_TIMEOUT
    /\ legs[1].last_heartbeat = HEARTBEAT_TIMEOUT

Appends ==
    /\ appended'.op = "append_trajectory"
    /\ AppendTrajectory(appended'.trajectory, appended'.later)
\* the start time of the trajectory appended, and its points that are not in
\* the past, in their order
StartTime ==
    IF appended'.trajectory.stamp = 0 THEN RosNow + appended'.later
    ELSE appended'.trajectory.stamp
NonPast ==
    LET Kept(p) == StartTime + p.time_from_start >= RosNow
    IN SelectSeq(appended'.trajectory.points, Kept)
\* the ids of the buffered points later than the first point of NonPast
Later ==
    {pid \in DOMAIN buffer.points :
        buffer.points[pid].point_time > StartTime + NonPast[1].time_from_start}
\* the k-th id after the counter, wrapping after MAX_ID
IdAfter(k) == (buffer.id + k) % (MAX_ID + 1)

\* C40 as stated: append_trajectory(b) removes from the buffer the points
\* later than the first point of b that is not in the past and returns them,
\* keeps every other buffered point, and leaves every point of b that is not
\* in the past in the buffer under an id of its own, taken from the counter.
C40_MergeIntoBuffer ==
    [][(Appends /\ NonPast # <<>>) =>
          /\ DOMAIN appended'.ret = Later
          /\ \A pid \in Later :
                /\ appended'.ret[pid] = buffer.points[pid]
                /\ pid \notin DOMAIN buffer'.points
          /\ \A pid \in DOMAIN buffer.points \ Later :
                /\ pid \in DOMAIN buffer'.points
                /\ buffer'.points[pid] = buffer.points[pid]
          /\ \A k \in 1..Len(NonPast) :
                /\ IdAfter(k) \in DOMAIN buffer'.points
                /\ buffer'.points[IdAfter(k)] =
                      LegPoint(IdAfter(k), NonPast[k].positions,
                               StartTime + NonPast[k].time_from_start)]_vars
====
